---- MODULE Spec2Model ----
(***************************************************************************)
(* Model of the capability-token authorization of blossy (package auth):   *)
(* Authenticate, ExtractEvent, impliedAction, ParseBlossomAuth and         *)
(* BlossomAuth.Validate; and of the server of package blossy that calls    *)
(* it: ServeHTTP, the handlers with their hooks, and StartAndServe.        *)
(*                                                                         *)
(* Time is counted in whole seconds.  Strings that the code only compares  *)
(* are strings here; strings that the code converts (hex hashes, decimal   *)
(* timestamps) are converted by tables over the small pools below.  A      *)
(* blossom.Hash is a tuple of bytes (two bytes stand for the 32), and an   *)
(* absent hash (a nil *blossom.Hash) is the empty tuple.                   *)
(***************************************************************************)
EXTENDS Integers, Sequences, FiniteSets, TLC

VARIABLES now, op, res, nextRequest, hooks, reqs, received, handed, run

\* the state of the server: the counter of Server, its Hooks, the requests
\* that ServeHTTP is serving, how many it was handed and the IDs it gave
\* (both kept for the properties), and the call of StartAndServe
serverVars == <<nextRequest, hooks, reqs, received, handed, run>>

vars == <<now, op, res, nextRequest, hooks, reqs, received, handed, run>>

---------------------------------------------------------------------------
(* Bounds of the model *)

MaxNowSec == 14
MaxList == 2
MaxEventTags == 3
MaxInFlight == 2
MaxRequests == 3
MaxRejectHooks == 2
MaxConns == 2
MaxBodyLen == 3
MaxTokenX == 2

---------------------------------------------------------------------------
(* Constants of the program *)

KindBlossomAuth == 24242
DefaultClockSkew == 10
MaxTags == 512

ActionGet == "get"
ActionUpload == "upload"
ActionList == "list"
ActionDelete == "delete"
validActions == <<ActionGet, ActionUpload, ActionList, ActionDelete>>

NoError == "nil"
ErrMissingHeader == "missing 'Authorization' header"
ErrInvalidScheme == "authorization scheme must be 'Nostr <base64_event>'"
ErrInvalidBase64 == "failed to decode base64 event payload"
ErrInvalidJSON == "invalid event json"
ErrMissingHash == "auth event has 'x' tags but no hash was provided to match against"
ErrInvalidEventID == "auth failed: invalid event ID"
ErrSignatureError == "auth failed: invalid event signature: error"
ErrInvalidSignature == "auth failed: invalid event signature"
ErrNoImpliedAction == "auth failed: this request doesn't have an implied action"
ErrUnsupportedKind == "auth failed: unsupported event kind"
ErrCreatedInFuture == "event created at is in the future"
ErrExpired == "event expiration is in the past"
ErrWrongAction == "expected action, got"
ErrWrongHash == "expected hash, got"
ErrWrongHostname == "expected server hostname, got"
ErrNilEvent == "event is nil"
ErrWrongKind == "event kind is not 24242"
ErrTooManyTags == "event has too many tags"
ErrDuplicateT == "'t' tag appears multiple times"
ErrInvalidT == "invalid 't' tag"
ErrDuplicateExpiration == "'expiration' tag appears multiple times"
ErrInvalidExpiration == "'expiration' tag is not a valid unix time"
ErrMissingT == "'t' tag is missing"
ErrMissingExpiration == "'expiration' tag is missing"

---------------------------------------------------------------------------
(* Helpers for slices *)

Contains(s, x) == \E i \in 1..Len(s) : s[i] = x

RECURSIVE SeqsUpTo(_, _)
SeqsUpTo(S, n) ==
    IF n = 0 THEN {<<>>}
    ELSE LET shorter == SeqsUpTo(S, n - 1)
         IN  shorter \cup {Append(s, x) : s \in {t \in shorter : Len(t) = n - 1}, x \in S}

---------------------------------------------------------------------------
(* blossom.Hash *)

NilHash == <<>>
ZeroHash == <<0, 0>>
HashA == <<170, 187>>
HashB == <<17, 17>>

\* blossom.ParseHash over the hex strings of the model
ParseHash(s) ==
    CASE s = "0000" -> [ok |-> TRUE, hash |-> ZeroHash]
      [] s = "aabb" -> [ok |-> TRUE, hash |-> HashA]
      [] s = "1111" -> [ok |-> TRUE, hash |-> HashB]
      [] OTHER -> [ok |-> FALSE, hash |-> ZeroHash]

\* strconv.ParseInt(s, 10, 64) over the decimal strings of the model; 2^63
\* is out of the range of 64 bits, which is an error
ParseInt(s) ==
    CASE s = "1" -> [ok |-> TRUE, n |-> 1]
      [] s = "40" -> [ok |-> TRUE, n |-> 40]
      [] s = "-5" -> [ok |-> TRUE, n |-> -5]
      [] s = "9223372036854775808" -> [ok |-> FALSE, n |-> 0]
      [] OTHER -> [ok |-> FALSE, n |-> 0]

\* The hash that Validate receives: its parameter is a blossom.Hash value,
\* which cannot be absent; an unknown hash is the zero value.
HashArg(hash) == IF hash = NilHash THEN ZeroHash ELSE hash

---------------------------------------------------------------------------
(* BlossomAuth.Validate *)

\* CreatedAtRule with a bound that is not inclusive
CreatedAtRuleExclusive(a, t) == a.CreatedAt < t + DefaultClockSkew

\* a.CreatedAt.After(max) is the failure
CreatedAtRule(a, t) == ~(a.CreatedAt > t + DefaultClockSkew)

\* a.Expiration.Before(min) is the failure
ExpirationRule(a, t) == ~(a.Expiration < t - DefaultClockSkew)

ActionRule(a, action) == a.Action = action

\* HashRule taking the zero hash for no hash to check
HashRuleSkipsZeroHash(a, hash) ==
    (Len(a.Hashes) > 0 /\ hash # ZeroHash) => Contains(a.Hashes, hash)

\* HashRule without the wildcard
HashRuleNoWildcard(a, hash) == Contains(a.Hashes, hash)

\* no x tags means the event is considered valid for all blobs
HashRule(a, hash) == Len(a.Hashes) > 0 => Contains(a.Hashes, hash)

\* HostnameRule comparing with the first listed hostname only
HostnameRuleFirstListed(a, hostname) == Len(a.Hostnames) > 0 => a.Hostnames[1] = hostname

\* no server tags means the event is considered valid for all servers
HostnameRule(a, hostname) == Len(a.Hostnames) > 0 => Contains(a.Hostnames, hostname)

\* Validate comparing the actions before it looks at the times
ValidateActionFirst(a, action, hash, hostname, t) ==
    IF ~ActionRule(a, action) THEN ErrWrongAction
    ELSE IF ~CreatedAtRule(a, t) THEN ErrCreatedInFuture
    ELSE IF ~ExpirationRule(a, t) THEN ErrExpired
    ELSE IF ~HashRule(a, hash) THEN ErrWrongHash
    ELSE IF ~HostnameRule(a, hostname) THEN ErrWrongHostname
    ELSE NoError

\* Validate refusing an expiration that is before createdAt
ValidateOrdersTimes(a, action, hash, hostname, t) ==
    IF a.Expiration < a.CreatedAt THEN ErrExpired
    ELSE IF ~CreatedAtRule(a, t) THEN ErrCreatedInFuture
    ELSE IF ~ExpirationRule(a, t) THEN ErrExpired
    ELSE IF ~ActionRule(a, action) THEN ErrWrongAction
    ELSE IF ~HashRule(a, hash) THEN ErrWrongHash
    ELSE IF ~HostnameRule(a, hostname) THEN ErrWrongHostname
    ELSE NoError

\* The error of a.Validate(action, hash, hostname) when time.Now() is t
Validate(a, action, hash, hostname, t) ==
    IF ~CreatedAtRule(a, t) THEN ErrCreatedInFuture
    ELSE IF ~ExpirationRule(a, t) THEN ErrExpired
    ELSE IF ~ActionRule(a, action) THEN ErrWrongAction
    ELSE IF ~HashRule(a, hash) THEN ErrWrongHash
    ELSE IF ~HostnameRule(a, hostname) THEN ErrWrongHostname
    ELSE NoError

---------------------------------------------------------------------------
(* ParseBlossomAuth *)

\* a nil *nostr.Event
NilEvent == [nil |-> TRUE]

NoAuth ==
    [Pubkey |-> "", CreatedAt |-> 0, Expiration |-> 0, Action |-> "",
     Hashes |-> <<>>, Hostnames |-> <<>>]

\* The cases of the switch on tag[0]; st is [auth, foundT, foundExp, err].

\* case "t" without the check for a second 't' tag: the last one wins
ParseTLastWins(st, tag) ==
    IF ~Contains(validActions, tag[2])
    THEN [st EXCEPT !.foundT = TRUE, !.err = ErrInvalidT]
    ELSE [st EXCEPT !.foundT = TRUE, !.auth.Action = tag[2]]

\* case "t"
ParseT(st, tag) ==
    IF st.foundT THEN [st EXCEPT !.err = ErrDuplicateT]
    ELSE IF ~Contains(validActions, tag[2])
         THEN [st EXCEPT !.foundT = TRUE, !.err = ErrInvalidT]
         ELSE [st EXCEPT !.foundT = TRUE, !.auth.Action = tag[2]]

\* case "expiration"
ParseExpiration(st, tag) ==
    IF st.foundExp THEN [st EXCEPT !.err = ErrDuplicateExpiration]
    ELSE LET unix == ParseInt(tag[2])
         IN  IF ~unix.ok
             THEN [st EXCEPT !.foundExp = TRUE, !.err = ErrInvalidExpiration]
             ELSE [st EXCEPT !.foundExp = TRUE, !.auth.Expiration = unix.n]

\* case "x" failing the parse on a malformed hash
ParseXFailsOnMalformed(st, tag) ==
    LET h == ParseHash(tag[2])
    IN  IF h.ok THEN [st EXCEPT !.auth.Hashes = Append(@, h.hash)]
        ELSE [st EXCEPT !.err = "invalid 'x' tag"]

\* case "x" keeping the last hash only
ParseXKeepsLast(st, tag) ==
    LET h == ParseHash(tag[2])
    IN  IF h.ok THEN [st EXCEPT !.auth.Hashes = <<h.hash>>] ELSE st

\* case "x" appending the zero hash that ParseHash returns with its error
ParseXAppendsZeroOnMalformed(st, tag) ==
    LET h == ParseHash(tag[2])
    IN  [st EXCEPT !.auth.Hashes = Append(@, h.hash)]

\* case "x": only valid hashes are appended
ParseX(st, tag) ==
    LET h == ParseHash(tag[2])
    IN  IF h.ok THEN [st EXCEPT !.auth.Hashes = Append(@, h.hash)] ELSE st

\* case "server"
ParseServer(st, tag) == [st EXCEPT !.auth.Hostnames = Append(@, tag[2])]

\* the switch on tag[0]
ParseKey(st, tag) ==
    IF tag[1] = "t" THEN ParseT(st, tag)
    ELSE IF tag[1] = "expiration" THEN ParseExpiration(st, tag)
    ELSE IF tag[1] = "x" THEN ParseX(st, tag)
    ELSE IF tag[1] = "server" THEN ParseServer(st, tag)
    ELSE st

\* One iteration with the key looked at before the length: a 't' or an
\* 'expiration' tag without a value counts as found
ParseTagShortCounts(st, tag) ==
    IF st.err # NoError THEN st
    ELSE IF Len(tag) = 1 /\ tag[1] = "t" THEN [st EXCEPT !.foundT = TRUE]
    ELSE IF Len(tag) = 1 /\ tag[1] = "expiration" THEN [st EXCEPT !.foundExp = TRUE]
    ELSE IF Len(tag) < 2 THEN st
    ELSE ParseKey(st, tag)

\* One iteration of the loop over e.Tags; a state with an error is final
\* (the function has returned).
ParseTag(st, tag) ==
    IF st.err # NoError THEN st
    ELSE IF Len(tag) < 2 THEN st
    ELSE ParseKey(st, tag)

RECURSIVE ParseTagsFromTo(_, _, _, _)
ParseTagsFromTo(st, tags, lo, hi) ==
    IF lo > hi THEN st
    ELSE IF lo = hi THEN ParseTag(st, tags[lo])
    ELSE LET mid == (lo + hi) \div 2
             left == ParseTagsFromTo(st, tags, lo, mid)
         IN  IF left.err # NoError THEN left
             ELSE ParseTagsFromTo(left, tags, mid + 1, hi)

\* the loop over e.Tags, first tag first, left at the first error (the range
\* is halved so that the evaluation of MaxTags tags stays shallow)
ParseTags(st, tags) == ParseTagsFromTo(st, tags, 1, Len(tags))

\* the tag budget reached one tag early
TooManyTagsInclusive(e) == Len(e.tags) >= MaxTags

\* len(e.Tags) > MaxTags
TooManyTags(e) == Len(e.tags) > MaxTags

\* [err, auth]: the error and the *BlossomAuth of ParseBlossomAuth(e)
ParseBlossomAuth(e) ==
    IF e = NilEvent THEN [err |-> ErrNilEvent, auth |-> NoAuth]
    ELSE IF e.kind # KindBlossomAuth THEN [err |-> ErrWrongKind, auth |-> NoAuth]
    ELSE IF TooManyTags(e) THEN [err |-> ErrTooManyTags, auth |-> NoAuth]
    ELSE LET st0 == [auth |-> [NoAuth EXCEPT !.Pubkey = e.pubkey,
                                             !.CreatedAt = e.created_at],
                     foundT |-> FALSE, foundExp |-> FALSE, err |-> NoError]
             st == ParseTags(st0, e.tags)
         IN  IF st.err # NoError THEN [err |-> st.err, auth |-> NoAuth]
             ELSE IF ~st.foundT THEN [err |-> ErrMissingT, auth |-> NoAuth]
             ELSE IF ~st.foundExp THEN [err |-> ErrMissingExpiration, auth |-> NoAuth]
             ELSE [err |-> NoError, auth |-> st.auth]

---------------------------------------------------------------------------
(* impliedAction *)

\* A path is a sequence of chunks: "/" or a word.  No word of the model but
\* "list" starts with the letters l-i-s-t, so that strings.HasPrefix(p,
\* "list") is a test of the first chunk; "/playlist" is <<"/", "play", "list">>.
TrimPrefix(path, chunk) ==
    IF Len(path) > 0 /\ path[1] = chunk THEN Tail(path) ELSE path

\* the chunk looked for anywhere in the path
HasPrefixAnywhere(path, chunk) == \E i \in 1..Len(path) : path[i] = chunk

HasPrefix(path, chunk) == Len(path) > 0 /\ path[1] = chunk

\* [err, action] of impliedAction(r)
impliedAction(r) ==
    LET p == TrimPrefix(r.path, "/")
    IN  IF p = <<"upload">> \/ p = <<"media">> \/ p = <<"mirror">>
        THEN [err |-> NoError, action |-> ActionUpload]
        ELSE IF HasPrefix(p, "list") THEN [err |-> NoError, action |-> ActionList]
        ELSE IF r.method = "GET" \/ r.method = "HEAD"
        THEN [err |-> NoError, action |-> ActionGet]
        ELSE IF r.method = "DELETE" THEN [err |-> NoError, action |-> ActionDelete]
        ELSE [err |-> ErrNoImpliedAction, action |-> ""]

---------------------------------------------------------------------------
(* ExtractEvent *)

\* The value of the Authorization header is header.text, a sequence of
\* tokens: " " is a space, "Nostr", "nostr" and "Basic" are themselves, and
\* "<b64>" is the text that encodes header.payload.
\* header.payload is [b64_ok, json_ok, event]: whether the text decodes as
\* base64, whether the decoded bytes are the json of an event, and the event.
NoEvent ==
    [id_ok |-> FALSE, sig |-> "malformed", kind |-> 0, pubkey |-> "",
     created_at |-> 0, tags |-> <<>>]

\* strings.Split(text, " ")
RECURSIVE Split(_)
Split(text) ==
    IF ~Contains(text, " ") THEN <<text>>
    ELSE LET i == CHOOSE k \in 1..Len(text) :
                      text[k] = " " /\ \A j \in 1..(k - 1) : text[j] # " "
         IN  <<SubSeq(text, 1, i - 1)>> \o Split(SubSeq(text, i + 1, Len(text)))

\* utils.DecodeBase64 of one part of the header: the empty string decodes to
\* no bytes, the payload's text decodes as the payload says, and a scheme
\* word (five characters) is no base64 of any variant.
DecodeBase64(part, payload) ==
    IF part = <<>> THEN [ok |-> TRUE, bytes |-> "empty"]
    ELSE IF part = <<"<b64>">> /\ payload.b64_ok THEN [ok |-> TRUE, bytes |-> "payload"]
    ELSE [ok |-> FALSE, bytes |-> "empty"]

\* json.Unmarshal(bytes, event): no bytes are no json
Unmarshal(bytes, payload) ==
    IF bytes = "payload" /\ payload.json_ok
    THEN [ok |-> TRUE, event |-> payload.event]
    ELSE [ok |-> FALSE, event |-> NoEvent]

\* [err, event] of ExtractEvent(r)
ExtractEvent(r) ==
    LET auth == r.header.text
    IN  IF auth = <<>> THEN [err |-> ErrMissingHeader, event |-> NoEvent]
        ELSE LET parts == Split(auth)
             IN  IF Len(parts) # 2 THEN [err |-> ErrInvalidScheme, event |-> NoEvent]
                 ELSE IF parts[1] # <<"Nostr">>
                 THEN [err |-> ErrInvalidScheme, event |-> NoEvent]
                 ELSE LET dec == DecodeBase64(parts[2], r.header.payload)
                      IN  IF ~dec.ok THEN [err |-> ErrInvalidBase64, event |-> NoEvent]
                          ELSE LET js == Unmarshal(dec.bytes, r.header.payload)
                               IN  IF ~js.ok
                                   THEN [err |-> ErrInvalidJSON, event |-> NoEvent]
                                   ELSE [err |-> NoError, event |-> js.event]

---------------------------------------------------------------------------
(* Authenticate *)

\* event.CheckID(): whether the declared id is the hash of the content
CheckID(e) == e.id_ok

\* event.CheckSignature(): an error when the pubkey or the signature cannot
\* be decoded, else whether the signature verifies against the pubkey
CheckSignature(e) ==
    IF e.pubkey = "" \/ e.sig = "malformed" THEN [match |-> FALSE, err |-> TRUE]
    ELSE [match |-> (e.sig = "valid"), err |-> FALSE]

Fail(err) == [pubkey |-> "", err |-> err]

\* Authorize with the named result pubkey set before validation and returned
\* with the error of Validate
AuthorizeKeepsPubkey(r, event, hostname, hash, t) ==
    IF ~CheckID(event) THEN Fail(ErrInvalidEventID)
    ELSE IF CheckSignature(event).err THEN Fail(ErrSignatureError)
    ELSE IF ~CheckSignature(event).match THEN Fail(ErrInvalidSignature)
    ELSE LET ia == impliedAction(r)
         IN  IF ia.err # NoError THEN Fail(ia.err)
             ELSE IF event.kind = KindBlossomAuth
             THEN LET parsed == ParseBlossomAuth(event)
                  IN  IF parsed.err # NoError THEN Fail(parsed.err)
                      ELSE [pubkey |-> parsed.auth.Pubkey,
                            err |-> Validate(parsed.auth, ia.action,
                                             HashArg(hash), hostname, t)]
             ELSE Fail(ErrUnsupportedKind)

\* Authorize looking at the kind of the event before its id and signature
AuthorizeChecksKindFirst(r, event, hostname, hash, t) ==
    IF event.kind # KindBlossomAuth THEN Fail(ErrUnsupportedKind)
    ELSE IF ~CheckID(event) THEN Fail(ErrInvalidEventID)
    ELSE IF CheckSignature(event).err THEN Fail(ErrSignatureError)
    ELSE IF ~CheckSignature(event).match THEN Fail(ErrInvalidSignature)
    ELSE LET ia == impliedAction(r)
         IN  IF ia.err # NoError THEN Fail(ia.err)
             ELSE LET parsed == ParseBlossomAuth(event)
                  IN  IF parsed.err # NoError THEN Fail(parsed.err)
                      ELSE LET err == Validate(parsed.auth, ia.action,
                                               HashArg(hash), hostname, t)
                           IN  IF err # NoError THEN Fail(err)
                               ELSE [pubkey |-> parsed.auth.Pubkey, err |-> NoError]

\* Authorize resolving the implied action before it verifies the event
AuthorizeResolvesActionBeforeVerifying(r, event, hostname, hash, t) ==
    LET ia == impliedAction(r)
    IN  IF ia.err # NoError THEN Fail(ia.err)
        ELSE IF ~CheckID(event) THEN Fail(ErrInvalidEventID)
        ELSE IF CheckSignature(event).err THEN Fail(ErrSignatureError)
        ELSE IF ~CheckSignature(event).match THEN Fail(ErrInvalidSignature)
        ELSE IF event.kind = KindBlossomAuth
        THEN LET parsed == ParseBlossomAuth(event)
             IN  IF parsed.err # NoError THEN Fail(parsed.err)
                 ELSE LET err == Validate(parsed.auth, ia.action,
                                          HashArg(hash), hostname, t)
                      IN  IF err # NoError THEN Fail(err)
                          ELSE [pubkey |-> parsed.auth.Pubkey, err |-> NoError]
        ELSE Fail(ErrUnsupportedKind)

\* The checks of Authenticate on the extracted event, when time.Now() is t
Authorize(r, event, hostname, hash, t) ==
    IF ~CheckID(event) THEN Fail(ErrInvalidEventID)
    ELSE IF CheckSignature(event).err THEN Fail(ErrSignatureError)
    ELSE IF ~CheckSignature(event).match THEN Fail(ErrInvalidSignature)
    ELSE LET ia == impliedAction(r)
         IN  IF ia.err # NoError THEN Fail(ia.err)
             ELSE IF event.kind = KindBlossomAuth
             THEN LET parsed == ParseBlossomAuth(event)
                  IN  IF parsed.err # NoError THEN Fail(parsed.err)
                      ELSE LET err == Validate(parsed.auth, ia.action,
                                               HashArg(hash), hostname, t)
                           IN  IF err # NoError THEN Fail(err)
                               ELSE [pubkey |-> parsed.auth.Pubkey, err |-> NoError]
             ELSE Fail(ErrUnsupportedKind)

\* Authenticate resolving the implied action before it looks at the header
AuthenticateResolvesActionFirst(r, hostname, hash, t) ==
    LET ex == ExtractEvent(r)
    IN  IF impliedAction(r).err # NoError THEN Fail(impliedAction(r).err)
        ELSE IF ex.err = ErrMissingHeader THEN [pubkey |-> "", err |-> NoError]
        ELSE IF ex.err # NoError THEN Fail(ex.err)
        ELSE Authorize(r, ex.event, hostname, hash, t)

\* Authenticate taking every error of ExtractEvent for a missing header
AuthenticateIgnoresExtractErrors(r, hostname, hash, t) ==
    LET ex == ExtractEvent(r)
    IN  IF ex.err # NoError THEN [pubkey |-> "", err |-> NoError]
        ELSE Authorize(r, ex.event, hostname, hash, t)

\* [pubkey, err] of Authenticate(r, hostname, hash) when time.Now() is t
Authenticate(r, hostname, hash, t) ==
    LET ex == ExtractEvent(r)
    IN  IF ex.err = ErrMissingHeader THEN [pubkey |-> "", err |-> NoError]
        ELSE IF ex.err # NoError THEN Fail(ex.err)
        ELSE Authorize(r, ex.event, hostname, hash, t)

---------------------------------------------------------------------------
(* The inputs of the model *)

Range(s) == {s[i] : i \in 1..Len(s)}

Hostnames == {"cdn.example.com", "other.example.com"}
HashOpts == {NilHash, ZeroHash, HashA}
Pubkeys == {"", "pkA", "pkB"}
Kinds == {KindBlossomAuth, 1}
SigResults == {"valid", "invalid", "malformed"}

\* The tags of the events carried by a header
TokenTags ==
    {<<"t", "upload">>, <<"t", "get">>, <<"expiration", "40">>, <<"expiration", "1">>,
     <<"x", "0000">>, <<"server", "cdn.example.com">>}

Verified(e) == e.id_ok /\ e.sig = "valid" /\ e.pubkey # ""

\* Events: every sequence of tags for the events of kind 24242 that pass
\* CheckID and CheckSignature, and those of at most one tag for the others.
Events ==
    {e \in [id_ok : BOOLEAN, sig : SigResults, kind : Kinds, pubkey : Pubkeys,
            created_at : {12}, tags : SeqsUpTo(TokenTags, MaxEventTags)] :
        (Verified(e) /\ e.kind = KindBlossomAuth) \/ Len(e.tags) <= 1}

GoodEvent ==
    [id_ok |-> TRUE, sig |-> "valid", kind |-> KindBlossomAuth, pubkey |-> "pkA",
     created_at |-> 12, tags |-> <<<<"t", "upload">>, <<"expiration", "40">>>>]

GoodPayload == [b64_ok |-> TRUE, json_ok |-> TRUE, event |-> GoodEvent]

Headers ==
    {[text |-> <<"Nostr", " ", "<b64>">>,
      payload |-> [b64_ok |-> TRUE, json_ok |-> TRUE, event |-> e]] : e \in Events}
    \cup {[text |-> <<"Nostr", " ", "<b64>">>, payload |-> p] :
            p \in {[GoodPayload EXCEPT !.b64_ok = FALSE],
                   [GoodPayload EXCEPT !.json_ok = FALSE]}}
    \cup {[text |-> t, payload |-> GoodPayload] :
            t \in {<<>>, <<"Basic", " ", "<b64>">>, <<"nostr", " ", "<b64>">>,
                   <<"Nostr">>, <<"Nostr", " ">>, <<"<b64>">>,
                   <<"Nostr", " ", " ", "<b64>">>,
                   <<"Nostr", " ", "<b64>", " ", "<b64>">>}}

\* The method and path of the requests handed to Authenticate
Routes ==
    {[method |-> "PUT", path |-> <<"/", "upload">>],
     [method |-> "GET", path |-> <<"/", "aabb">>],
     [method |-> "POST", path |-> <<"/", "aabb">>],
     [method |-> "GET", path |-> <<"/", "list">>]}

\* The capabilities handed to Validate
Capabilities ==
    [Pubkey : {"pkA"}, CreatedAt : {0, 24}, Expiration : {1, 40},
     Action : Range(validActions),
     Hashes : SeqsUpTo({ZeroHash, HashA}, MaxList),
     Hostnames : SeqsUpTo(Hostnames, MaxList)]

---------------------------------------------------------------------------
(* The state machine: a clock, and one call at a time.  op is the call and  *)
(* its arguments, res its result; a call is atomic and reads the clock once. *)

Idle == [name |-> "idle"]
NoResult == [pubkey |-> "", err |-> NoError]

\* a slot of ServeHTTP that serves no request
Free == [pc |-> "free"]

\* DefaultHooks(): no Reject hook, and of the On hooks only FetchBlob and
\* FetchMeta, which are not optional
DefaultHooks ==
    [On |-> {},
     Reject |-> [e \in {"FetchBlob", "FetchMeta", "Delete", "Upload", "Mirror", "Media",
                        "Report"} |-> 0]]

\* StartAndServe has not been called
NotStarted == [pc |-> "new"]

\* NewServer(): the counter is zero, the hooks are the default ones
NewServer ==
    /\ nextRequest = 0
    /\ hooks = DefaultHooks
    /\ reqs = [slot \in 1..MaxInFlight |-> Free]
    /\ received = 0
    /\ handed = <<>>
    /\ run = NotStarted

Init ==
    /\ now = 0
    /\ op = Idle
    /\ res = NoResult
    /\ NewServer

\* time passes between the calls
Tick ==
    /\ op = Idle
    /\ now < MaxNowSec
    /\ now' = now + 1
    /\ UNCHANGED <<op, res>>
    /\ UNCHANGED serverVars

CallAuthenticate ==
    /\ op = Idle
    /\ \E route \in Routes, header \in Headers, hostname \in Hostnames, hash \in HashOpts :
        LET r == [method |-> route.method, path |-> route.path, header |-> header]
        IN  /\ op' = [name |-> "Authenticate", r |-> r, hostname |-> hostname,
                      hash |-> hash]
            /\ res' = Authenticate(r, hostname, hash, now)
    /\ UNCHANGED now
    /\ UNCHANGED serverVars

CallValidate ==
    /\ op = Idle
    /\ \E a \in Capabilities, action \in Range(validActions), hash \in HashOpts,
          hostname \in Hostnames :
        /\ op' = [name |-> "Validate", auth |-> a, action |-> action, hash |-> hash,
                  hostname |-> hostname]
        /\ res' = [pubkey |-> "", err |-> Validate(a, action, HashArg(hash), hostname, now)]
    /\ UNCHANGED now
    /\ UNCHANGED serverVars

Return ==
    /\ op # Idle
    /\ op' = Idle
    /\ res' = NoResult
    /\ UNCHANGED now
    /\ UNCHANGED serverVars

Next == Tick \/ CallAuthenticate \/ Return

Spec == Init /\ [][Next]_vars

NextValidate == Tick \/ CallValidate \/ Return

SpecValidate == Init /\ [][NextValidate]_vars

---------------------------------------------------------------------------
(* What the properties say of a call, stated on its arguments *)

\* the token in the Authorization header of the request of an Authenticate call
TokenOf(o) == o.r.header.payload.event

\* whether the header of the call carries a token at all: scheme, base64 and json
CarriesToken(o) ==
    /\ o.r.header.text = <<"Nostr", " ", "<b64>">>
    /\ o.r.header.payload.b64_ok
    /\ o.r.header.payload.json_ok

\* the values of the tags of e with the key and at least two elements
TagIndexes(e, key) == {i \in 1..Len(e.tags) : Len(e.tags[i]) >= 2 /\ e.tags[i][1] = key}
TagValueSet(e, key) == {e.tags[i][2] : i \in TagIndexes(e, key)}

\* the well-formed hashes of the 'x' tags of e
ListedHashes(e) == {ParseHash(v).hash : v \in {w \in TagValueSet(e, "x") : ParseHash(w).ok}}

\* the token says action: it has this one 't' tag
SaysAction(e, action) ==
    Cardinality(TagIndexes(e, "t")) = 1 /\ TagValueSet(e, "t") = {action}

\* the token has one 'expiration' tag, a decimal unix time
SaysExpiration(e) ==
    /\ Cardinality(TagIndexes(e, "expiration")) = 1
    /\ \A v \in TagValueSet(e, "expiration") : ParseInt(v).ok

\* the action that the method and the path of a request imply, "" if none
ImpliedBy(method, path) ==
    LET p == IF path # <<>> /\ Head(path) = "/" THEN Tail(path) ELSE path
    IN  IF p \in {<<"upload">>, <<"media">>, <<"mirror">>} THEN "upload"
        ELSE IF p # <<>> /\ Head(p) = "list" THEN "list"
        ELSE IF method \in {"GET", "HEAD"} THEN "get"
        ELSE IF method = "DELETE" THEN "delete"
        ELSE ""

---------------------------------------------------------------------------
(* Authenticate *)

\* C1: Authenticate returns a non-empty principal and no error only if the
\* token's id equals its content hash, its signature verifies, its kind is
\* 24242, it has one 't' tag that names the action implied by the request
\* and one 'expiration' tag, createdAt <= now + 10s, expiration >= now - 10s,
\* its 'x' tags are none or the expected hash is present and listed, its
\* 'server' tags are none or the hostname is listed; and the principal is
\* the token's pubkey.
C1_SuccessOnlyIfEveryCheckPasses ==
    (op.name = "Authenticate" /\ res.err = NoError /\ res.pubkey # "") =>
        LET e == TokenOf(op)
        IN  /\ CarriesToken(op)
            /\ e.id_ok
            /\ e.sig = "valid"
            /\ e.kind = 24242
            /\ ImpliedBy(op.r.method, op.r.path) # ""
            /\ SaysAction(e, ImpliedBy(op.r.method, op.r.path))
            /\ SaysExpiration(e)
            /\ e.created_at <= now + 10
            /\ \A v \in TagValueSet(e, "expiration") : ParseInt(v).n >= now - 10
            /\ ListedHashes(e) = {} \/ (op.hash # NilHash /\ op.hash \in ListedHashes(e))
            /\ TagValueSet(e, "server") = {} \/ op.hostname \in TagValueSet(e, "server")
            /\ res.pubkey = e.pubkey

\* C2: with an empty Authorization header Authenticate returns the empty
\* principal and no error, whatever the method, path, hostname and hash.
C2_MissingHeaderIsUnauthenticated ==
    (op.name = "Authenticate" /\ op.r.header.text = <<>>) =>
        (res.pubkey = "" /\ res.err = NoError)

\* a call without a header, for a request that has no implied action
C2_Witness ==
    /\ op.name = "Authenticate"
    /\ op.r.header.text = <<>>
    /\ ImpliedBy(op.r.method, op.r.path) = ""
    /\ op.hash = NilHash
    /\ res = [pubkey |-> "", err |-> NoError]

\* C3: with a non-empty Authorization header Authenticate never returns the
\* empty principal together with no error.
C3_PresentHeaderNeverUnauthenticated ==
    (op.name = "Authenticate" /\ op.r.header.text # <<>>) =>
        ~(res.pubkey = "" /\ res.err = NoError)

\* a token whose signature does not verify is a hard error
C3_Witness ==
    /\ op.name = "Authenticate"
    /\ CarriesToken(op)
    /\ TokenOf(op).id_ok
    /\ TokenOf(op).sig = "invalid"
    /\ res.err = ErrInvalidSignature

\* C4: whenever Authenticate returns an error, the principal is empty.
C4_NoPrincipalWithAnError ==
    (op.name = "Authenticate" /\ res.err # NoError) => res.pubkey = ""

\* a verified token of a known principal that Validate rejects
C4_Witness ==
    /\ op.name = "Authenticate"
    /\ CarriesToken(op)
    /\ Verified(TokenOf(op))
    /\ TokenOf(op).pubkey = "pkA"
    /\ res.err = ErrWrongHostname
    /\ res.pubkey = ""

---------------------------------------------------------------------------
(* BlossomAuth.Validate *)

\* the three rules before the hostname rule pass, on any reading of them
BeforeHostnamePass(o) ==
    /\ o.auth.CreatedAt <= now + 10
    /\ o.auth.Expiration >= now - 10
    /\ o.auth.Action = o.action
    /\ o.auth.Hashes = <<>> \/ (o.hash # NilHash /\ o.hash \in Range(o.auth.Hashes))

HostnamePasses(o) ==
    o.auth.Hostnames = <<>> \/ o.hostname \in Range(o.auth.Hostnames)

\* C5: Validate with an absent expected hash against a capability that lists
\* hashes always fails, also when the all-zero hash is listed.
C5_AbsentHashFailsAgainstListedHashes ==
    (op.name = "Validate" /\ op.hash = NilHash /\ op.auth.Hashes # <<>>) =>
        res.err # NoError

C7_NoHashesIsAWildcard ==
    ( /\ op.name = "Validate"
      /\ op.auth.Hashes = <<>>
      /\ op.auth.CreatedAt <= now + 10
      /\ op.auth.Expiration >= now - 10
      /\ op.auth.Action = op.action
      /\ HostnamePasses(op) ) => res.err = NoError

C7_Witness ==
    /\ op.name = "Validate"
    /\ op.auth.Hashes = <<>>
    /\ op.hash = HashA
    /\ op.auth.Hostnames # <<>>
    /\ res.err = NoError

\* C8: the hostname rule passes if and only if the capability lists no
\* hostname or the expected hostname is one of the listed; otherwise the
\* failure is hostname-not-authorized.
C8_HostnameRule ==
    op.name = "Validate" =>
        /\ res.err = NoError => HostnamePasses(op)
        /\ res.err = ErrWrongHostname => ~HostnamePasses(op)
        /\ BeforeHostnamePass(op) =>
              res.err = (IF HostnamePasses(op) THEN NoError ELSE ErrWrongHostname)

\* the hostname is the second of two listed ones
C8_Witness ==
    /\ op.name = "Validate"
    /\ Len(op.auth.Hostnames) = 2
    /\ op.auth.Hostnames[1] # op.hostname
    /\ op.auth.Hostnames[2] = op.hostname
    /\ res.err = NoError

\* a capability with server tags, none the serving hostname
C8_WitnessRejected ==
    /\ op.name = "Validate"
    /\ op.auth.Hostnames = <<"other.example.com">>
    /\ op.hostname = "cdn.example.com"
    /\ res.err = ErrWrongHostname

\* C9: the time rules pass exactly when createdAt <= now + 10s and
\* expiration >= now - 10s, both bounds inclusive.
C9_TimeRules ==
    op.name = "Validate" =>
        /\ res.err = ErrCreatedInFuture <=> op.auth.CreatedAt > now + 10
        /\ res.err = ErrExpired <=>
              (op.auth.CreatedAt <= now + 10 /\ op.auth.Expiration < now - 10)

\* accepted with createdAt exactly now + 10s
C9_Witness ==
    /\ op.name = "Validate"
    /\ op.auth.CreatedAt = now + 10
    /\ res.err = NoError

\* accepted with expiration exactly now - 10s
C9_WitnessExpiration ==
    /\ op.name = "Validate"
    /\ op.auth.Expiration = now - 10
    /\ res.err = NoError

\* C10, as claimed: a capability expired by more than the tolerance fails
\* as expired, whatever its other fields and the expected values.
C10_ExpiredWhateverTheRest ==
    (op.name = "Validate" /\ op.auth.Expiration < now - 10) => res.err = ErrExpired

\* C10, amended: a capability expired by more than the tolerance always
\* fails, whatever its other fields and the expected values: as expired,
\* unless its createdAt is more than the tolerance in the future, which is
\* checked first and fails as created in the future.
C10_ExpiredAlwaysFails ==
    (op.name = "Validate" /\ op.auth.Expiration < now - 10) =>
        res.err = (IF op.auth.CreatedAt > now + 10 THEN ErrCreatedInFuture ELSE ErrExpired)

\* expired, and wrong in its action, hash and hostname as well
C10_Witness ==
    /\ op.name = "Validate"
    /\ op.auth.Expiration < now - 10
    /\ op.auth.Action # op.action
    /\ op.auth.Hashes = <<ZeroHash>> /\ op.hash = HashA
    /\ op.auth.Hostnames = <<"other.example.com">> /\ op.hostname = "cdn.example.com"
    /\ res.err = ErrExpired


---------------------------------------------------------------------------
(* ParseBlossomAuth on its own: the events it is given, and one call of it *)

MaxParseTags == 3

\* the tags of the events given to ParseBlossomAuth: the keys it knows with
\* good and bad values, tags without a value, and a key it does not know
ParseTagPool ==
    {<<"t", "upload">>, <<"t", "get">>, <<"t", "fly">>, <<"t">>,
     <<"expiration", "40">>, <<"expiration", "not-a-number">>,
     <<"expiration", "9223372036854775808">>, <<"expiration">>,
     <<"x", "0000">>, <<"x", "aabb">>, <<"x", "not-a-valid-hash">>,
     <<"server", "cdn.example.com">>, <<"alt", "text">>}

\* the tags of the events that parse, with the good and the bad hashes
GoodTagPool ==
    {<<"t", "upload">>, <<"expiration", "40">>, <<"x", "0000">>, <<"x", "aabb">>,
     <<"x", "not-a-valid-hash">>, <<"server", "cdn.example.com">>}

\* n tags: the first ones are prefix, the others are all filler
LongTags(n, prefix, filler) ==
    [i \in 1..n |-> IF i <= Len(prefix) THEN prefix[i] ELSE filler]

\* events with MaxTags tags and with one more
LongEvents ==
    {[kind |-> k, pubkey |-> "pkA", created_at |-> 12, id_ok |-> FALSE, sig |-> "malformed",
      tags |-> LongTags(n, prefix, filler)] :
        k \in Kinds, n \in {MaxTags, MaxTags + 1},
        prefix \in {<<>>, <<<<"t", "upload">>, <<"expiration", "40">>>>,
                    <<<<"t", "upload">>, <<"t", "get">>, <<"expiration", "40">>>>,
                    <<<<"t", "fly">>>>},
        filler \in {<<"x", "0000">>, <<"x", "not-a-valid-hash">>}}

\* the events given to ParseBlossomAuth, which does not look at id and sig:
\* every sequence of a few tags, longer ones of the tags that parse, some
\* of another kind, some with the tag budget used up, and no event
ParseEvents ==
    [kind : {KindBlossomAuth}, pubkey : {"pkA", "pkB"}, created_at : {12},
     id_ok : {FALSE}, sig : {"malformed"},
     tags : SeqsUpTo(ParseTagPool, MaxParseTags) \cup SeqsUpTo(GoodTagPool, MaxParseTags + 1)]
    \cup [kind : {1}, pubkey : {"pkA"}, created_at : {12},
          id_ok : {FALSE}, sig : {"malformed"}, tags : SeqsUpTo(ParseTagPool, 1)]
    \cup LongEvents
    \cup {NilEvent}

CallParseBlossomAuth ==
    /\ op = Idle
    /\ \E e \in ParseEvents :
        /\ op' = [name |-> "ParseBlossomAuth", e |-> e]
        /\ res' = ParseBlossomAuth(e)
    /\ UNCHANGED now
    /\ UNCHANGED serverVars

NextParse == CallParseBlossomAuth \/ Return

SpecParse == Init /\ [][NextParse]_vars

\* a call of ParseBlossomAuth on an event that is not nil
ParsedEvent == op.name = "ParseBlossomAuth" /\ op.e # NilEvent

\* the values of the tags of e with the key and at least two elements, in order
TagValues(e, key) ==
    LET IsKey(tag) == Len(tag) >= 2 /\ tag[1] = key
        sel == SelectSeq(e.tags, IsKey)
    IN  [i \in 1..Len(sel) |-> sel[i][2]]

\* the hashes of the well-formed 'x' tags of e, in order
WellFormedHashes(e) ==
    LET IsHash(v) == ParseHash(v).ok
        sel == SelectSeq(TagValues(e, "x"), IsHash)
    IN  [i \in 1..Len(sel) |-> ParseHash(sel[i]).hash]

\* the decimal strings of the model that are base-10 integers, and those of
\* them that fit a signed integer of 64 bits
Base10Integers == {"1", "40", "-5", "9223372036854775808"}
Int64Integers == {"1", "40", "-5"}

\* C11: ParseBlossomAuth fails for every event with two 't' tags of at least
\* two elements, with two 'expiration' tags of at least two elements, or
\* with a 't' tag whose value is not get, upload, list or delete, whatever
\* the order, the values and the other tags.
C11_DuplicateOrUnknownActionFails ==
    ParsedEvent =>
        LET e == op.e
        IN  (\/ Cardinality(TagIndexes(e, "t")) >= 2
             \/ Cardinality(TagIndexes(e, "expiration")) >= 2
             \/ \E v \in TagValueSet(e, "t") : v \notin {"get", "upload", "list", "delete"})
            => res.err # NoError

\* two 't' tags with the same valid value, and nothing else wrong
C11_Witness ==
    /\ ParsedEvent
    /\ op.e.kind = KindBlossomAuth
    /\ op.e.tags = <<<<"t", "upload">>, <<"expiration", "40">>, <<"t", "upload">>>>
    /\ res.err = ErrDuplicateT

\* C12: ParseBlossomAuth fails when the event has no 't' tag or no
\* 'expiration' tag of at least two elements; a tag of fewer than two
\* elements neither counts as the required tag nor as a duplicate of it.
C12_MissingTagFailsShortTagSkipped ==
    ParsedEvent =>
        LET e == op.e
        IN  /\ (TagIndexes(e, "t") = {} \/ TagIndexes(e, "expiration") = {})
                => res.err # NoError
            /\ res.err = ErrMissingT => TagIndexes(e, "t") = {}
            /\ res.err = ErrMissingExpiration => TagIndexes(e, "expiration") = {}
            /\ res.err = ErrDuplicateT => Cardinality(TagIndexes(e, "t")) >= 2
            /\ res.err = ErrDuplicateExpiration
                => Cardinality(TagIndexes(e, "expiration")) >= 2

\* a 't' tag without a value does not count as the 't' tag
C12_Witness ==
    /\ ParsedEvent
    /\ op.e.tags = <<<<"t">>, <<"expiration", "40">>>>
    /\ res.err = ErrMissingT

\* a 't' tag without a value is no duplicate of the 't' tag that follows
C12_WitnessNoDuplicate ==
    /\ ParsedEvent
    /\ op.e.tags = <<<<"t">>, <<"t", "upload">>, <<"expiration", "40">>>>
    /\ res.err = NoError

\* the event is of the kind, within the tag budget, and has one 't' tag with
\* a valid action and one 'expiration' tag with a value of the set
WellFormedEvent(e, expirations) ==
    /\ e.kind = 24242
    /\ Len(e.tags) <= 512
    /\ Cardinality(TagIndexes(e, "t")) = 1
    /\ TagValueSet(e, "t") \subseteq {"get", "upload", "list", "delete"}
    /\ Cardinality(TagIndexes(e, "expiration")) = 1
    /\ TagValueSet(e, "expiration") \subseteq expirations

\* the capability is the one the event describes
CapabilityOf(e, auth) ==
    /\ auth.Action = TagValues(e, "t")[1]
    /\ auth.Expiration = ParseInt(TagValues(e, "expiration")[1]).n
    /\ auth.CreatedAt = e.created_at
    /\ auth.Pubkey = e.pubkey
    /\ auth.Hashes = WellFormedHashes(e)
    /\ auth.Hostnames = TagValues(e, "server")

\* C13 as stated: every event of kind 24242 with at most MaxTags tags, one
\* 't' tag with a valid action and one 'expiration' tag with a base-10
\* integer parses, and the capability has the action, the expiration, the
\* createdAt and the principal of the event, its well-formed 'x' values and
\* all its 'server' values.
C13_ValidEventParses ==
    (ParsedEvent /\ WellFormedEvent(op.e, Base10Integers)) =>
        /\ res.err = NoError
        /\ CapabilityOf(op.e, res.auth)

\* C13, amended: the same for an 'expiration' tag with a base-10 integer
\* that fits a signed integer of 64 bits.
C13_ValidEventWithInt64ExpirationParses ==
    (ParsedEvent /\ WellFormedEvent(op.e, Int64Integers)) =>
        /\ res.err = NoError
        /\ CapabilityOf(op.e, res.auth)

C13_Witness ==
    /\ ParsedEvent
    /\ op.e.pubkey = "pkB"
    /\ op.e.tags = <<<<"x", "aabb">>, <<"expiration", "40">>,
                     <<"server", "cdn.example.com">>, <<"t", "upload">>>>
    /\ res.err = NoError
    /\ res.auth = [Pubkey |-> "pkB", CreatedAt |-> 12, Expiration |-> 40, Action |-> "upload",
                   Hashes |-> <<HashA>>, Hostnames |-> <<"cdn.example.com">>]

\* the event has an 'x' tag whose value is not a hash
HasMalformedX(e) == \E v \in TagValueSet(e, "x") : ~ParseHash(v).ok

\* C14: a malformed 'x' tag never makes ParseBlossomAuth fail and is never
\* added to resourceHashes; the well-formed 'x' tags of the event are all
\* recorded.
C14_MalformedXIsSkipped ==
    (ParsedEvent /\ HasMalformedX(op.e)) =>
        /\ res.err \notin {ErrNilEvent, ErrWrongKind, ErrTooManyTags, ErrDuplicateT,
                           ErrInvalidT, ErrDuplicateExpiration, ErrInvalidExpiration,
                           ErrMissingT, ErrMissingExpiration}
            => res.err = NoError
        /\ WellFormedEvent(op.e, Int64Integers) => res.err = NoError
        /\ res.err = NoError =>
            /\ Len(res.auth.Hashes) = Len(WellFormedHashes(op.e))
            /\ \A i \in 1..Len(res.auth.Hashes) :
                res.auth.Hashes[i] = WellFormedHashes(op.e)[i]

C14_Witness ==
    /\ ParsedEvent
    /\ op.e.tags = <<<<"t", "upload">>, <<"x", "not-a-valid-hash">>, <<"x", "aabb">>,
                     <<"expiration", "40">>>>
    /\ res.err = NoError
    /\ res.auth.Hashes = <<HashA>>

\* C15: an event with more than MaxTags tags is rejected before any tag is
\* examined, whatever the tags are; an event with MaxTags tags is parsed as
\* any other.
C15_TagBudget ==
    ParsedEvent =>
        LET e == op.e
        IN  /\ Len(e.tags) > 512 =>
                /\ res.err \in {ErrWrongKind, ErrTooManyTags}
                /\ e.kind = 24242 => res.err = ErrTooManyTags
            /\ Len(e.tags) = 512 =>
                /\ res.err # ErrTooManyTags
                /\ WellFormedEvent(e, Int64Integers) =>
                    /\ res.err = NoError
                    /\ Len(res.auth.Hashes) = Len(WellFormedHashes(e))
                /\ (e.kind = 24242 /\ e.tags[1] = <<"t", "fly">>) => res.err = ErrInvalidT
                /\ (e.kind = 24242 /\ Cardinality(TagIndexes(e, "t")) >= 2)
                    => res.err = ErrDuplicateT

\* MaxTags tags: the 't' tag, the 'expiration' tag and 510 hashes
C15_Witness ==
    /\ ParsedEvent
    /\ Len(op.e.tags) = 512
    /\ res.err = NoError
    /\ Len(res.auth.Hashes) = 510

\* one tag more, and the duplicate 't' tag in them is not seen
C15_WitnessTooMany ==
    /\ ParsedEvent
    /\ op.e.kind = 24242
    /\ Len(op.e.tags) = 513
    /\ Cardinality(TagIndexes(op.e, "t")) = 2
    /\ res.err = ErrTooManyTags


---------------------------------------------------------------------------
(* impliedAction on its own: every method on every path of a few chunks *)

MaxPathChunks == 3

Methods == {"GET", "HEAD", "PUT", "DELETE", "POST", "OPTIONS"}

\* the chunks of the paths: the separator, the words of the routes, and
\* words around "list"
PathChunks == {"/", "upload", "media", "mirror", "list", "play", "lis", "unknown"}

CallImpliedAction ==
    /\ op = Idle
    /\ \E method \in Methods, path \in SeqsUpTo(PathChunks, MaxPathChunks) :
        LET r == [method |-> method, path |-> path]
        IN  /\ op' = [name |-> "impliedAction", r |-> r]
            /\ res' = impliedAction(r)
    /\ UNCHANGED now
    /\ UNCHANGED serverVars

NextAction == CallImpliedAction \/ Return

SpecAction == Init /\ [][NextAction]_vars

\* C16: impliedAction is this total function of the method and of the path
\* stripped of one leading "/": a path equal to upload, media or mirror gives
\* Upload for every method; otherwise a path starting with list gives List
\* for every method; otherwise GET and HEAD give Get; otherwise DELETE gives
\* Delete; otherwise it fails.  GET /playlist gives Get, POST /unknown fails.
C16_ImpliedActionTable ==
    op.name = "impliedAction" =>
        LET path == op.r.path
            p == IF path # <<>> /\ path[1] = "/" THEN SubSeq(path, 2, Len(path)) ELSE path
            ok(action) == res = [err |-> NoError, action |-> action]
        IN  /\ p \in {<<"upload">>, <<"media">>, <<"mirror">>} => ok("upload")
            /\ (p \notin {<<"upload">>, <<"media">>, <<"mirror">>}
                    /\ p # <<>> /\ p[1] = "list") => ok("list")
            /\ (p \notin {<<"upload">>, <<"media">>, <<"mirror">>}
                    /\ (p = <<>> \/ p[1] # "list")) =>
                /\ op.r.method \in {"GET", "HEAD"} => ok("get")
                /\ op.r.method = "DELETE" => ok("delete")
                /\ op.r.method \notin {"GET", "HEAD", "DELETE"} =>
                    (res.err # NoError /\ res.action = "")
            /\ (op.r.method = "GET" /\ path = <<"/", "play", "list">>) => ok("get")
            /\ (op.r.method = "POST" /\ path = <<"/", "unknown">>) => res.err # NoError

\* GET /playlist: "list" is in the path, not at its start
C16_Witness ==
    /\ op.name = "impliedAction"
    /\ op.r = [method |-> "GET", path |-> <<"/", "play", "list">>]
    /\ res = [err |-> NoError, action |-> "get"]

\* POST /unknown has no implied action
C16_WitnessNoAction ==
    /\ op.name = "impliedAction"
    /\ op.r = [method |-> "POST", path |-> <<"/", "unknown">>]
    /\ res.err = ErrNoImpliedAction


---------------------------------------------------------------------------
(* ExtractEvent on its own: header values of a few tokens *)

MaxHeaderTokens == 4

\* The values of the Authorization header: words and spaces in any order, two
\* words never side by side (the words of a part would run into one word of
\* which DecodeBase64 above says nothing).
HeaderTexts ==
    {text \in SeqsUpTo({"Nostr", "nostr", "Basic", "<b64>", " "}, MaxHeaderTokens) :
        \A i \in 1..(Len(text) - 1) : text[i] = " " \/ text[i + 1] = " "}

HeaderPayloads ==
    {GoodPayload, [GoodPayload EXCEPT !.b64_ok = FALSE],
     [GoodPayload EXCEPT !.json_ok = FALSE]}

CallExtractEvent ==
    /\ op = Idle
    /\ \E text \in HeaderTexts, payload \in HeaderPayloads :
        LET r == [method |-> "GET", path |-> <<"/", "aabb">>,
                  header |-> [text |-> text, payload |-> payload]]
        IN  /\ op' = [name |-> "ExtractEvent", r |-> r]
            /\ res' = ExtractEvent(r)
    /\ UNCHANGED now
    /\ UNCHANGED serverVars

NextExtract == CallExtractEvent \/ Return

SpecExtract == Init /\ [][NextExtract]_vars

\* the header value splits on single spaces into exactly two non-empty
\* parts, and the first is "Nostr"
WellSchemed(text) ==
    LET parts == Split(text)
    IN  /\ Len(parts) = 2
        /\ parts[1] # <<>> /\ parts[2] # <<>>
        /\ parts[1] = <<"Nostr">>

\* C17: ExtractEvent fails with invalid-scheme for every non-empty header
\* value that does not split on a single space into exactly two non-empty
\* parts or whose first part is not exactly "Nostr".
C17_MalformedHeaderIsInvalidScheme ==
    (op.name = "ExtractEvent" /\ op.r.header.text # <<>>
        /\ ~WellSchemed(op.r.header.text))
    => res.err = ErrInvalidScheme

\* what the code does for C17: every such header value fails, as
\* invalid-scheme but for "Nostr " with nothing after the space, which is
\* decoded as base64 and fails as invalid JSON
C17_InvalidSchemeButEmptyPayload ==
    (op.name = "ExtractEvent" /\ op.r.header.text # <<>>
        /\ ~WellSchemed(op.r.header.text))
    => IF op.r.header.text = <<"Nostr", " ">>
       THEN res.err = ErrInvalidJSON
       ELSE res.err = ErrInvalidScheme


---------------------------------------------------------------------------
(* utils.DecodeBase64 character by character.  A string is a sequence of    *)
(* characters; an encoding of encoding/base64 is its alphabet and whether   *)
(* it pads.                                                                 *)

MaxBase64Len == 4

ErrAmbiguousBase64 ==
    "ambiguous base64: contains both standard (+/) and URL-safe (-_) characters"
ErrCorruptInput == "illegal base64 data"

StdEncoding == [alphabet |-> "std", padded |-> TRUE]
RawStdEncoding == [alphabet |-> "std", padded |-> FALSE]
URLEncoding == [alphabet |-> "url", padded |-> TRUE]
RawURLEncoding == [alphabet |-> "url", padded |-> FALSE]

\* the six bits of a character in an alphabet, -1 if it is not in it
Sextet(alphabet, c) ==
    CASE c = "A" -> 0
      [] c = "Q" -> 16
      [] c = "w" -> 48
      [] c = "+" /\ alphabet = "std" -> 62
      [] c = "/" /\ alphabet = "std" -> 63
      [] c = "-" /\ alphabet = "url" -> 62
      [] c = "_" /\ alphabet = "url" -> 63
      [] OTHER -> -1

\* the bytes of a quantum of 2, 3 or 4 characters: 1, 2 or 3 bytes, the
\* bits left over are dropped
QuantumBytes(alphabet, q) ==
    LET v(k) == IF k <= Len(q) THEN Sextet(alphabet, q[k]) ELSE 0
        val == v(1) * 262144 + v(2) * 4096 + v(3) * 64 + v(4)
        b == <<(val \div 65536) % 256, (val \div 256) % 256, val % 256>>
    IN  SubSeq(b, 1, Len(q) - 1)

\* the bytes of the characters of data, four characters at a time
RECURSIVE DataBytes(_, _)
DataBytes(alphabet, data) ==
    IF Len(data) = 0 THEN <<>>
    ELSE IF Len(data) <= 4 THEN QuantumBytes(alphabet, data)
    ELSE QuantumBytes(alphabet, SubSeq(data, 1, 4))
            \o DataBytes(alphabet, SubSeq(data, 5, Len(data)))

\* enc.DecodeString(s): the characters before the padding must be of the
\* alphabet; with padding the length is a multiple of four and the last
\* quantum ends with no, one or two "="; without padding there is no "=" and
\* no quantum of one character.
DecodeString(enc, s) ==
    LET n == Len(s)
        pad == IF ~enc.padded THEN 0
               ELSE IF n >= 2 /\ s[n] = "=" /\ s[n - 1] = "=" THEN 2
               ELSE IF n >= 1 /\ s[n] = "=" THEN 1
               ELSE 0
        data == SubSeq(s, 1, n - pad)
        wellFormed ==
            /\ \A i \in 1..Len(data) : Sextet(enc.alphabet, data[i]) >= 0
            /\ IF enc.padded THEN n % 4 = 0 /\ Len(data) % 4 # 1
               ELSE Len(data) % 4 # 1
    IN  IF wellFormed THEN [err |-> NoError, bytes |-> DataBytes(enc.alphabet, data)]
        ELSE [err |-> ErrCorruptInput, bytes |-> <<>>]

\* strings.ContainsAny and strings.HasSuffix for one character
ContainsAny(s, chars) == \E i \in 1..Len(s) : s[i] \in chars
HasSuffix(s, c) == Len(s) > 0 /\ s[Len(s)] = c

\* DecodeBase64 with the padded standard encoding as the default
DecodeBase64StringStdDefault(s) ==
    LET isURLSafe == ContainsAny(s, {"-", "_"})
        isStandard == ContainsAny(s, {"+", "/"})
        isPadded == HasSuffix(s, "=")
    IN  IF isURLSafe /\ isStandard THEN [err |-> ErrAmbiguousBase64, bytes |-> <<>>]
        ELSE IF isURLSafe /\ isPadded THEN DecodeString(URLEncoding, s)
        ELSE IF isURLSafe /\ ~isPadded THEN DecodeString(RawURLEncoding, s)
        ELSE DecodeString(StdEncoding, s)

\* [err, bytes] of utils.DecodeBase64(s)
DecodeBase64String(s) ==
    LET isURLSafe == ContainsAny(s, {"-", "_"})
        isStandard == ContainsAny(s, {"+", "/"})
        isPadded == HasSuffix(s, "=")
    IN  IF isURLSafe /\ isStandard THEN [err |-> ErrAmbiguousBase64, bytes |-> <<>>]
        ELSE IF isURLSafe /\ isPadded THEN DecodeString(URLEncoding, s)
        ELSE IF isURLSafe /\ ~isPadded THEN DecodeString(RawURLEncoding, s)
        ELSE IF ~isURLSafe /\ isPadded THEN DecodeString(StdEncoding, s)
        ELSE DecodeString(RawStdEncoding, s)

\* letters of both alphabets, the characters of one alphabet only, the
\* padding, and a character of no alphabet
Base64Chars == {"A", "w", "+", "/", "-", "_", "=", "!"}

CallDecodeBase64 ==
    /\ op = Idle
    /\ \E s \in SeqsUpTo(Base64Chars, MaxBase64Len) :
        /\ op' = [name |-> "DecodeBase64", s |-> s]
        /\ res' = DecodeBase64String(s)
    /\ UNCHANGED now
    /\ UNCHANGED serverVars

NextBase64 == CallDecodeBase64 \/ Return

SpecBase64 == Init /\ [][NextBase64]_vars

\* C18: DecodeBase64 rejects as ambiguous every input with both a character
\* of the URL-safe alphabet only ("-", "_") and one of the standard alphabet
\* only ("+", "/"); otherwise it decodes with the URL-safe alphabet exactly
\* when "-" or "_" occurs, with padding exactly when the input ends with
\* "=", and with the unpadded standard encoding when neither.
C18_VariantDetection ==
    op.name = "DecodeBase64" =>
        LET s == op.s
            url == \E i \in 1..Len(s) : s[i] = "-" \/ s[i] = "_"
            std == \E i \in 1..Len(s) : s[i] = "+" \/ s[i] = "/"
            padded == s # <<>> /\ s[Len(s)] = "="
        IN  IF url /\ std THEN res.err = ErrAmbiguousBase64
            ELSE /\ res.err # ErrAmbiguousBase64
                 /\ res = DecodeString([alphabet |-> IF url THEN "url" ELSE "std",
                                        padded |-> padded], s)
                 /\ (~url /\ ~padded) => res = DecodeString(RawStdEncoding, s)

\* "AA" has no character of one alphabet only and no padding: one zero byte
C18_Witness ==
    /\ op.name = "DecodeBase64"
    /\ op.s = <<"A", "A">>
    /\ res = [err |-> NoError, bytes |-> <<0>>]

\* "-_-_" is decoded with the URL-safe alphabet
C18_WitnessURL ==
    /\ op.name = "DecodeBase64"
    /\ op.s = <<"-", "_", "-", "_">>
    /\ res = [err |-> NoError, bytes |-> <<251, 255, 191>>]

\* "+/-_" is ambiguous
C18_WitnessAmbiguous ==
    /\ op.name = "DecodeBase64"
    /\ op.s = <<"+", "/", "-", "_">>
    /\ res.err = ErrAmbiguousBase64

\* "AA==" is decoded with padding
C18_WitnessPadded ==
    /\ op.name = "DecodeBase64"
    /\ op.s = <<"A", "A", "=", "=">>
    /\ res = [err |-> NoError, bytes |-> <<0>>]


---------------------------------------------------------------------------
(* The order of the checks of Authenticate *)

ParseErrors ==
    {ErrNilEvent, ErrWrongKind, ErrTooManyTags, ErrDuplicateT, ErrInvalidT,
     ErrDuplicateExpiration, ErrInvalidExpiration, ErrMissingT, ErrMissingExpiration}

ValidateErrors ==
    {ErrCreatedInFuture, ErrExpired, ErrWrongAction, ErrWrongHash, ErrWrongHostname}

\* the header value has the scheme "Nostr" and nothing after its space
EmptyPayload(text) == text = <<"Nostr", " ">>

\* the signature of the token is one of its pubkey
SignatureVerifies(e) == e.pubkey # "" /\ e.sig = "valid"

\* the tags of the token make a capability: one 't' tag with an action and
\* one 'expiration' tag with a unix time
TagsParse(e) ==
    /\ Cardinality(TagIndexes(e, "t")) = 1
    /\ TagValueSet(e, "t") \subseteq {"get", "upload", "list", "delete"}
    /\ SaysExpiration(e)

\* C19: Authenticate applies its checks in one order and the first that
\* fails alone decides the outcome: header present, scheme, base64, JSON, id
\* binding, signature, implied action, kind of the capability, parsing of
\* the capability, validation.  A wrong scheme fails as invalid-scheme
\* whatever the payload is, a bad signature as a signature failure whatever
\* the kind, the tags, the method and the path are.
C19_FirstFailingCheckDecides ==
    op.name = "Authenticate" =>
        LET text == op.r.header.text
            payload == op.r.header.payload
            e == payload.event
        IN  IF text = <<>> THEN res = [pubkey |-> "", err |-> NoError]
            ELSE IF EmptyPayload(text)
            THEN res.err \in {ErrInvalidScheme, ErrInvalidBase64, ErrInvalidJSON}
            ELSE IF ~WellSchemed(text) THEN res.err = ErrInvalidScheme
            ELSE IF ~payload.b64_ok THEN res.err = ErrInvalidBase64
            ELSE IF ~payload.json_ok THEN res.err = ErrInvalidJSON
            ELSE IF ~e.id_ok THEN res.err = ErrInvalidEventID
            ELSE IF ~SignatureVerifies(e)
            THEN res.err \in {ErrSignatureError, ErrInvalidSignature}
            ELSE IF ImpliedBy(op.r.method, op.r.path) = ""
            THEN res.err = ErrNoImpliedAction
            ELSE IF e.kind # 24242 THEN res.err = ErrUnsupportedKind
            ELSE IF ~TagsParse(e) THEN res.err \in ParseErrors
            ELSE res.err \in ValidateErrors \cup {NoError}

\* a bad signature on a token of another kind, in a request without an
\* implied action
C19_Witness ==
    /\ op.name = "Authenticate"
    /\ CarriesToken(op)
    /\ TokenOf(op).id_ok
    /\ TokenOf(op).sig = "invalid"
    /\ TokenOf(op).pubkey # ""
    /\ TokenOf(op).kind # 24242
    /\ ImpliedBy(op.r.method, op.r.path) = ""
    /\ res.err = ErrInvalidSignature

\* a wrong scheme in front of a payload that is good
C19_WitnessScheme ==
    /\ op.name = "Authenticate"
    /\ op.r.header.text = <<"Basic", " ", "<b64>">>
    /\ op.r.header.payload = GoodPayload
    /\ res.err = ErrInvalidScheme

---------------------------------------------------------------------------
(* The server: ServeHTTP routes a request to a handler; a handler answers   *)
(* 501 when its optional On hook is missing, parses and authenticates the   *)
(* request, gives it an ID, runs the Reject hooks of its endpoint in order  *)
(* and then the On hook.  reqs[slot] is the request that one goroutine of   *)
(* net/http is serving; a hook is a step of that goroutine.                 *)

\* s.Sys.hostname
ServerHostname == "cdn.example.com"

\* utils.ParseHashExt taking every name for a hash
ParseHashExtAcceptsAnyName(path) ==
    LET p == TrimPrefix(path, "/")
        dots == {i \in 1..Len(p) : p[i] = "."}
        name == IF dots = {} THEN p
                ELSE SubSeq(p, 1, (CHOOSE i \in dots : \A j \in dots : i <= j) - 1)
    IN  [ok |-> TRUE, hash |-> HashA]

\* utils.ParseHashExt: the leading "/" is trimmed, the name is what comes
\* before the first ".", and the name must be a hash in hex; a name of
\* several path chunks holds a "/" and is no hex string
ParseHashExt(path) ==
    LET p == TrimPrefix(path, "/")
        dots == {i \in 1..Len(p) : p[i] = "."}
        name == IF dots = {} THEN p
                ELSE SubSeq(p, 1, (CHOOSE i \in dots : \A j \in dots : i <= j) - 1)
    IN  IF Len(name) = 1 THEN ParseHash(name[1]) ELSE [ok |-> FALSE, hash |-> ZeroHash]

\* the switch of ServeHTTP
Route(r) ==
    CASE r.path = <<"/", "upload">> /\ r.method = "PUT" -> "HandleUpload"
      [] r.path = <<"/", "upload">> /\ r.method = "HEAD" -> "HandleUploadCheck"
      [] r.path = <<"/", "media">> /\ r.method = "PUT" -> "HandleMedia"
      [] r.path = <<"/", "media">> /\ r.method = "HEAD" -> "HandleMediaCheck"
      [] r.path = <<"/", "mirror">> /\ r.method = "PUT" -> "HandleMirror"
      [] r.path = <<"/", "report">> /\ r.method = "PUT" -> "HandleReport"
      [] OTHER -> CASE r.method = "GET" -> "HandleFetchBlob"
                    [] r.method = "HEAD" -> "HandleFetchMeta"
                    [] r.method = "DELETE" -> "HandleDelete"
                    [] r.method = "OPTIONS" -> "Options"
                    [] OTHER -> "Unsupported"

\* RequiredHook where the two check handlers go on without the On hook
RequiredHookNotForChecks(handler) ==
    CASE handler = "HandleDelete" -> "Delete"
      [] handler = "HandleUpload" -> "Upload"
      [] handler = "HandleMirror" -> "Mirror"
      [] handler = "HandleMedia" -> "Media"
      [] handler = "HandleReport" -> "Report"
      [] OTHER -> ""

\* the optional On hook that a handler tests against nil before anything
\* else; "" for the handlers of the hooks that always exist
RequiredHook(handler) ==
    CASE handler = "HandleDelete" -> "Delete"
      [] handler \in {"HandleUpload", "HandleUploadCheck"} -> "Upload"
      [] handler = "HandleMirror" -> "Mirror"
      [] handler \in {"HandleMedia", "HandleMediaCheck"} -> "Media"
      [] handler = "HandleReport" -> "Report"
      [] OTHER -> ""

\* the slice of s.Reject that a handler ranges over
RejectSlice(handler) ==
    CASE handler = "HandleFetchBlob" -> "FetchBlob"
      [] handler = "HandleFetchMeta" -> "FetchMeta"
      [] handler = "HandleDelete" -> "Delete"
      [] handler \in {"HandleUpload", "HandleUploadCheck"} -> "Upload"
      [] handler = "HandleMirror" -> "Mirror"
      [] handler \in {"HandleMedia", "HandleMediaCheck"} -> "Media"
      [] handler = "HandleReport" -> "Report"

\* the hook of s.On that a handler calls after its Reject hooks; the two
\* check handlers call none and answer 200
OnHook(handler) ==
    CASE handler = "HandleFetchBlob" -> "FetchBlob"
      [] handler = "HandleFetchMeta" -> "FetchMeta"
      [] handler = "HandleDelete" -> "Delete"
      [] handler = "HandleUpload" -> "Upload"
      [] handler = "HandleMirror" -> "Mirror"
      [] handler = "HandleMedia" -> "Media"
      [] handler = "HandleReport" -> "Report"
      [] OTHER -> ""

\* what a parse function returns: the code of its error (0 is no error) and
\* whether and with what hash it called Authenticate
ParseResult(code, called, hash) == [code |-> code, called |-> called, hash |-> hash]

\* the 400 or 401 of a parse function from the error of Authenticate; the
\* 400 is for ErrMissingHash, which parseUpload tests
AuthResult(r, hash, t, missingHashIs400) ==
    LET a == Authenticate(r, ServerHostname, hash, t)
    IN  IF missingHashIs400 /\ a.err = ErrMissingHash
        THEN ParseResult(400, TRUE, hash)
        ELSE IF a.err # NoError THEN ParseResult(401, TRUE, hash)
        ELSE ParseResult(0, TRUE, hash)

\* parseFetch and parseDelete: the hash of the path, then Authenticate
parseFetch(r, t) ==
    LET h == ParseHashExt(r.path)
    IN  IF ~h.ok THEN ParseResult(400, FALSE, NilHash)
        ELSE AuthResult(r, h.hash, t, FALSE)

\* parseUpload: Content-Length (r.inputs), the optional Content-Digest
\* (r.digest), then Authenticate with the digest or with nil
parseUpload(r, t) ==
    IF r.inputs # "ok" THEN ParseResult(400, FALSE, NilHash)
    ELSE IF r.digest = "" THEN AuthResult(r, NilHash, t, TRUE)
    ELSE IF ~ParseHash(r.digest).ok THEN ParseResult(400, FALSE, NilHash)
    ELSE AuthResult(r, ParseHash(r.digest).hash, t, TRUE)

\* parseUploadCheck: X-Content-Type and X-Content-Length (r.inputs), the
\* required X-SHA-256 (r.digest), then Authenticate
parseUploadCheck(r, t) ==
    IF r.inputs # "ok" THEN ParseResult(400, FALSE, NilHash)
    ELSE IF r.digest = "" THEN ParseResult(400, FALSE, NilHash)
    ELSE IF ~ParseHash(r.digest).ok THEN ParseResult(400, FALSE, NilHash)
    ELSE AuthResult(r, ParseHash(r.digest).hash, t, FALSE)

\* parseMirror: a JSON body of at most 512 bytes with an https URL
\* (r.inputs), the hash of the path of that URL (r.digest), then Authenticate
parseMirror(r, t) ==
    IF r.inputs # "ok" THEN ParseResult(400, FALSE, NilHash)
    ELSE LET h == ParseHashExt(<<"/", r.digest>>)
         IN  IF ~h.ok THEN ParseResult(400, FALSE, NilHash)
             ELSE AuthResult(r, h.hash, t, FALSE)

\* parseReport: a JSON body with a report event (r.inputs); no Authenticate
parseReport(r, t) ==
    IF r.inputs # "ok" THEN ParseResult(400, FALSE, NilHash)
    ELSE ParseResult(0, FALSE, NilHash)

\* the parse function that a handler calls
Parse(handler, r, t) ==
    CASE handler \in {"HandleFetchBlob", "HandleFetchMeta", "HandleDelete"} -> parseFetch(r, t)
      [] handler \in {"HandleUpload", "HandleMedia"} -> parseUpload(r, t)
      [] handler \in {"HandleUploadCheck", "HandleMediaCheck"} -> parseUploadCheck(r, t)
      [] handler = "HandleMirror" -> parseMirror(r, t)
      [] handler = "HandleReport" -> parseReport(r, t)

\* a request that a handler has answered
Done(req, code, from) == [req EXCEPT !.pc = "done", !.resp = [code |-> code, from |-> from]]

\* ServeHTTP and the handler up to the end of its parse function, for the
\* request r under the hooks h at time t
Serve(r, h, t) ==
    LET handler == Route(r)
        req == [pc |-> "routed", r |-> r, handler |-> handler, parsed |-> FALSE,
                auth |-> [called |-> FALSE, hash |-> NilHash], id |-> 0, i |-> 1,
                calls |-> <<>>, resp |-> [code |-> 0, from |-> <<>>]]
    IN  IF handler = "Options" THEN Done(req, 200, <<"ServeHTTP">>)
        ELSE IF handler = "Unsupported" THEN Done(req, 405, <<"ServeHTTP">>)
        ELSE IF RequiredHook(handler) # "" /\ RequiredHook(handler) \notin h.On
        THEN Done(req, 501, <<"On", RequiredHook(handler)>>)
        ELSE LET p == Parse(handler, r, t)
                 seen == [req EXCEPT !.parsed = TRUE,
                                     !.auth = [called |-> p.called, hash |-> p.hash]]
             IN  IF p.code # 0 THEN Done(seen, p.code, <<"parse">>)
                 ELSE [seen EXCEPT !.pc = "parsed"]

\* atomic.Int64.Add that returns the new value and stores nothing
AtomicAddLosesUpdate(counter, delta) ==
    [stored |-> counter, returned |-> counter + delta]

\* atomic.Int64.Add: one indivisible step stores and returns the new value
AtomicAdd(counter, delta) ==
    [stored |-> counter + delta, returned |-> counter + delta]

\* the step of a handler after a Reject hook returned and took no account
\* of its error
AfterRejectIgnoresError(req, slice, result) ==
    LET called == [req EXCEPT !.calls = Append(@, [hook |-> "Reject", name |-> slice,
                                                   i |-> req.i, id |-> req.id,
                                                   result |-> result])]
    IN  [called EXCEPT !.i = @ + 1]

\* the step of a handler after the Reject hook number req.i of the slice
\* returned result: an error is written as the response and the handler
\* returns, nil leads to the next hook
AfterReject(req, slice, result) ==
    LET called == [req EXCEPT !.calls = Append(@, [hook |-> "Reject", name |-> slice,
                                                   i |-> req.i, id |-> req.id,
                                                   result |-> result])]
    IN  IF result # "nil" THEN Done(called, 403, <<"Reject", slice, req.i>>)
        ELSE [called EXCEPT !.i = @ + 1]

\* the step of a handler after its On hook returned result
AfterOn(req, name, result) ==
    LET called == [req EXCEPT !.calls = Append(@, [hook |-> "On", name |-> name,
                                                   i |-> 1, id |-> req.id,
                                                   result |-> result])]
    IN  IF result # "nil" THEN Done(called, 403, <<"On", name>>)
        ELSE Done(called, 200, <<"On", name>>)

\* TotalRequests()
TotalRequests == nextRequest

\* what a hook returns: nil or an error
HookResults == {"nil", "error"}

OptionalHooks == {"Delete", "Upload", "Mirror", "Media", "Report"}

\* the hooks of the servers of the model: the default ones; every On hook
\* and MaxRejectHooks Reject hooks on every endpoint; and Upload and Delete
\* only, with Reject hooks on some endpoints, Media among them
HookConfigs ==
    {DefaultHooks,
     [On |-> OptionalHooks, Reject |-> [e \in DOMAIN DefaultHooks.Reject |-> MaxRejectHooks]],
     [On |-> {"Upload", "Delete"},
      Reject |-> [e \in DOMAIN DefaultHooks.Reject |->
                    CASE e \in {"Upload", "FetchBlob"} -> 1
                      [] e = "Media" -> MaxRejectHooks
                      [] OTHER -> 0]]}

\* a token of pkA with one action, valid from time 0
ServerToken(action) ==
    [text |-> <<"Nostr", " ", "<b64>">>,
     payload |-> [GoodPayload EXCEPT !.event.created_at = 0,
                                     !.event.tags = <<<<"t", action>>, <<"expiration", "40">>>>]]

\* the Authorization headers of the requests of the server: none, a token
\* for upload, a token for get, and another scheme
ServerHeaders ==
    {[text |-> <<>>, payload |-> GoodPayload], ServerToken("upload"), ServerToken("get"),
     [text |-> <<"Basic", " ", "<b64>">>, payload |-> GoodPayload]}

ServerPaths ==
    {<<"/", "upload">>, <<"/", "media">>, <<"/", "mirror">>, <<"/", "report">>,
     <<"/", "aabb">>, <<"/", "aabb", ".", "png">>, <<"/", "list">>,
     <<"/", "list", "/", "aabb">>, <<"/", "zz">>}

\* the requests handed to ServeHTTP: inputs is "ok" when the headers and the
\* body that the endpoint reads besides the hash are acceptable; digest is
\* the hash that comes outside of the path (Content-Digest, X-SHA-256, the
\* URL to mirror)
ServerRequests ==
    [method : Methods, path : ServerPaths, header : ServerHeaders,
     inputs : {"ok", "bad"}, digest : {"", "aabb", "zz"}]

\* the requests of the model of concurrent serving
ConcurrentRequests ==
    {r \in ServerRequests :
        /\ r.method = "GET" /\ r.path \in {<<"/", "aabb">>, <<"/", "zz">>}
        /\ r.header.text = <<>> /\ r.inputs = "ok" /\ r.digest = ""}

\* net/http calls ServeHTTP in a goroutine of its own
ServeHTTP(slot, requests) ==
    /\ reqs[slot] = Free
    /\ received < MaxRequests
    /\ \E r \in requests :
        reqs' = [reqs EXCEPT ![slot] = Serve(r, hooks, now)]
    /\ received' = received + 1
    /\ UNCHANGED <<now, op, res, nextRequest, hooks, handed, run>>

\* request.id = s.nextRequest.Add(1)
AssignID(slot) ==
    /\ reqs[slot].pc = "parsed"
    /\ LET add == AtomicAdd(nextRequest, 1)
       IN  /\ nextRequest' = add.stored
           /\ reqs' = [reqs EXCEPT ![slot].id = add.returned, ![slot].pc = "hooks"]
           /\ handed' = Append(handed, add.returned)
    /\ UNCHANGED <<now, op, res, hooks, received, run>>

\* one turn of the loop over the Reject hooks of the endpoint
RunRejectHook(slot) ==
    /\ reqs[slot].pc = "hooks"
    /\ LET slice == RejectSlice(reqs[slot].handler)
       IN  /\ reqs[slot].i <= hooks.Reject[slice]
           /\ \E result \in HookResults :
                reqs' = [reqs EXCEPT ![slot] = AfterReject(reqs[slot], slice, result)]
    /\ UNCHANGED <<now, op, res, nextRequest, hooks, received, handed, run>>

\* after the loop: the On hook, or the 200 of a check handler
RunOnHook(slot) ==
    /\ reqs[slot].pc = "hooks"
    /\ reqs[slot].i > hooks.Reject[RejectSlice(reqs[slot].handler)]
    /\ LET name == OnHook(reqs[slot].handler)
       IN  IF name = ""
           THEN reqs' = [reqs EXCEPT ![slot] = Done(reqs[slot], 200, <<"check">>)]
           ELSE \E result \in HookResults :
                    reqs' = [reqs EXCEPT ![slot] = AfterOn(reqs[slot], name, result)]
    /\ UNCHANGED <<now, op, res, nextRequest, hooks, received, handed, run>>

\* the handler returns
HandlerReturns(slot) ==
    /\ reqs[slot].pc = "done"
    /\ reqs' = [reqs EXCEPT ![slot] = Free]
    /\ UNCHANGED <<now, op, res, nextRequest, hooks, received, handed, run>>

\* a server with the hooks of one of the configurations
InitServer ==
    /\ now = 0
    /\ op = Idle
    /\ res = NoResult
    /\ nextRequest = 0
    /\ hooks \in HookConfigs
    /\ reqs = [slot \in 1..MaxInFlight |-> Free]
    /\ received = 0
    /\ handed = <<>>
    /\ run = NotStarted

\* one request at a time, of every kind
NextServer ==
    \/ ServeHTTP(1, ServerRequests)
    \/ AssignID(1)
    \/ RunRejectHook(1)
    \/ RunOnHook(1)
    \/ HandlerReturns(1)

SpecServer == InitServer /\ [][NextServer]_vars

\* up to MaxInFlight requests at a time, their steps interleaved
NextConcurrent ==
    \E slot \in 1..MaxInFlight :
        \/ ServeHTTP(slot, ConcurrentRequests)
        \/ AssignID(slot)
        \/ RunRejectHook(slot)
        \/ RunOnHook(slot)
        \/ HandlerReturns(slot)

SpecConcurrent == InitServer /\ [][NextConcurrent]_vars

---------------------------------------------------------------------------
(* Properties of the hooks *)

\* the requests that ServeHTTP is serving
Serving == {slot \in 1..MaxInFlight : reqs[slot].pc # "free"}

\* C21: the Reject hooks of the endpoint of a request are invoked in the
\* order of the slice; nothing is invoked after a hook returned an error, and
\* the error of a Reject hook is the response; the On hook is the one of
\* the endpoint and is invoked only after every Reject hook of the endpoint
\* returned nil.
C21_RejectHooksInOrderThenOn ==
    \A slot \in Serving :
        LET q == reqs[slot]
        IN  \A k \in 1..Len(q.calls) :
                LET call == q.calls[k]
                    n == hooks.Reject[RejectSlice(q.handler)]
                IN  /\ k < Len(q.calls) => q.calls[k].result = "nil"
                    /\ call.hook = "Reject" =>
                        /\ call.name = RejectSlice(q.handler)
                        /\ call.i = k
                        /\ k <= n
                        /\ call.result # "nil" =>
                            /\ q.pc = "done"
                            /\ q.resp = [code |-> 403,
                                         from |-> <<"Reject", RejectSlice(q.handler), k>>]
                    /\ call.hook = "On" =>
                        /\ call.name = OnHook(q.handler)
                        /\ k = n + 1
                        /\ \A j \in 1..n :
                            q.calls[j].hook = "Reject" /\ q.calls[j].result = "nil"

\* the second Reject hook rejected a request that the first one let pass
C21_Witness ==
    \E slot \in Serving :
        /\ Len(reqs[slot].calls) = 2
        /\ reqs[slot].calls[1].result = "nil"
        /\ reqs[slot].calls[2].hook = "Reject"
        /\ reqs[slot].calls[2].result = "error"

\* an On hook ran after two Reject hooks
C21_WitnessOn ==
    \E slot \in Serving :
        /\ Len(reqs[slot].calls) = 3
        /\ reqs[slot].calls[2].hook = "Reject"
        /\ reqs[slot].calls[3].hook = "On"

\* the optional On hook of the endpoint of a request, by the method and the
\* path; "" when the endpoint has none
OptionalEndpoint(r) ==
    CASE r.path \in {<<"/", "upload">>, <<"/", "media">>} /\ r.method \in {"PUT", "HEAD"} ->
            IF r.path = <<"/", "upload">> THEN "Upload" ELSE "Media"
      [] r.path = <<"/", "mirror">> /\ r.method = "PUT" -> "Mirror"
      [] r.path = <<"/", "report">> /\ r.method = "PUT" -> "Report"
      [] OTHER -> IF r.method = "DELETE" THEN "Delete" ELSE ""

\* C22: a request to an endpoint whose optional On hook is not configured
\* is answered 501, is neither parsed nor authenticated, reaches no Reject
\* hook and gets no ID.
C22_MissingOnHookIs501 ==
    \A slot \in Serving :
        LET q == reqs[slot]
        IN  (OptionalEndpoint(q.r) # "" /\ OptionalEndpoint(q.r) \notin hooks.On) =>
                /\ q.pc = "done"
                /\ q.resp.code = 501
                /\ ~q.parsed
                /\ ~q.auth.called
                /\ q.calls = <<>>
                /\ q.id = 0
                /\ TotalRequests = Len(handed)

\* HEAD /media with a good token and good headers is answered 501 by a
\* server that has Reject hooks for Media but no On hook for it
C22_Witness ==
    \E slot \in Serving :
        /\ reqs[slot].r.method = "HEAD"
        /\ reqs[slot].r.path = <<"/", "media">>
        /\ reqs[slot].r.header = ServerToken("upload")
        /\ reqs[slot].r.inputs = "ok"
        /\ reqs[slot].r.digest = "aabb"
        /\ hooks.Reject["Media"] > 0
        /\ reqs[slot].resp.code = 501

---------------------------------------------------------------------------
(* Properties of the request counter *)

\* C23: whatever the interleaving of the requests being served, the IDs
\* given so far are 1, 2, 3, ... in this order, no two requests being served
\* have the same ID, and every hook call of a request carries the ID that
\* the request was given.
C23_RequestIDsUnique ==
    /\ \A k \in 1..Len(handed) : handed[k] = k
    /\ \A a, b \in Serving :
        (a # b /\ reqs[a].id # 0 /\ reqs[b].id # 0) => reqs[a].id # reqs[b].id
    /\ \A slot \in Serving :
        /\ reqs[slot].id \in 0..Len(handed)
        /\ \A k \in 1..Len(reqs[slot].calls) :
            /\ reqs[slot].calls[k].id = reqs[slot].id
            /\ reqs[slot].id # 0

\* two requests are in their hooks at the same time, and the one of the
\* second goroutine was given its ID first
C23_Witness ==
    /\ MaxInFlight >= 2
    /\ reqs[1].pc # "free" /\ reqs[2].pc # "free"
    /\ reqs[1].calls # <<>> /\ reqs[2].calls # <<>>
    /\ reqs[2].id = 1
    /\ reqs[1].id = 2

\* C24: when every request handed to ServeHTTP has been answered,
\* TotalRequests() is the number of the requests handed to ServeHTTP.
C24_TotalRequestsCountsReceived ==
    Serving = {} => TotalRequests = received

\* what the counter counts: the requests that passed the test of the
\* optional hook and their parse function
C24_TotalRequestsCountsParsed ==
    TotalRequests = Len(handed) /\ TotalRequests <= received

---------------------------------------------------------------------------
(* StartAndServe: the caller waits in a select for the context or for the   *)
(* error of the goroutine that runs ListenAndServe.  run is the call: pc    *)
(* the position of the caller, ctx the context, listen the goroutine,       *)
(* exitErr the channel of capacity 1, conns the connections being served.   *)

\* s.settings.HTTP.shutdownTimeout in seconds: at least one second, five by
\* default
ShutdownTimeouts == {1, 5}

\* StartAndServe is called, with a context that may be cancelled already;
\* the goroutine is started
CallStartAndServe ==
    /\ run.pc = "new"
    /\ \E timeout \in ShutdownTimeouts, ctx \in {"live", "cancelled"} :
        run' = [pc |-> "select", ctx |-> ctx, listen |-> "starting", exitErr |-> <<>>,
                conns |-> 0, timeout |-> timeout, deadline |-> 0, ret |-> "none"]
    /\ UNCHANGED <<now, op, res, nextRequest, hooks, reqs, received, handed>>

\* server.ListenAndServe() in the goroutine: it listens and serves, or it
\* fails (the address is in use, say) and its error goes to exitErr
ListenAndServe ==
    /\ run.pc # "new"
    /\ run.listen = "starting"
    /\ \/ run' = [run EXCEPT !.listen = "serving"]
       \/ run' = [run EXCEPT !.listen = "failed", !.exitErr = <<"listen error">>]
    /\ UNCHANGED <<now, op, res, nextRequest, hooks, reqs, received, handed>>

\* Accept fails for good while serving: ListenAndServe returns that error
AcceptFails ==
    /\ run.pc # "new"
    /\ run.listen = "serving"
    /\ run' = [run EXCEPT !.listen = "failed", !.exitErr = <<"accept error">>]
    /\ UNCHANGED <<now, op, res, nextRequest, hooks, reqs, received, handed>>

\* a connection is accepted and is being served
ConnOpens ==
    /\ run.pc # "new"
    /\ run.listen = "serving"
    /\ run.conns < MaxConns
    /\ run' = [run EXCEPT !.conns = @ + 1]
    /\ UNCHANGED <<now, op, res, nextRequest, hooks, reqs, received, handed>>

\* a connection becomes idle or closes
ConnCloses ==
    /\ run.pc # "new"
    /\ run.conns > 0
    /\ run' = [run EXCEPT !.conns = @ - 1]
    /\ UNCHANGED <<now, op, res, nextRequest, hooks, reqs, received, handed>>

\* the owner of the context cancels it
Cancel ==
    /\ run.pc # "new"
    /\ run.ctx = "live"
    /\ run' = [run EXCEPT !.ctx = "cancelled"]
    /\ UNCHANGED <<now, op, res, nextRequest, hooks, reqs, received, handed>>

\* case <-ctx.Done(): the context of the shutdown gets its deadline and
\* server.Shutdown closes the listener, so that ListenAndServe returns
\* ErrServerClosed, which is not sent
SelectCtxDone ==
    /\ run.pc = "select"
    /\ run.ctx = "cancelled"
    /\ run' = [run EXCEPT !.pc = "shutdown", !.deadline = now + run.timeout,
                          !.listen = IF @ \in {"starting", "serving"} THEN "closed" ELSE @]
    /\ UNCHANGED <<now, op, res, nextRequest, hooks, reqs, received, handed>>

\* case err := <-exitErr: return err
SelectExitErr ==
    /\ run.pc = "select"
    /\ run.exitErr # <<>>
    /\ run' = [run EXCEPT !.pc = "returned", !.ret = run.exitErr[1], !.exitErr = <<>>]
    /\ UNCHANGED <<now, op, res, nextRequest, hooks, reqs, received, handed>>

\* server.Shutdown(ctx) returns nil when no connection is being served, and
\* the error of its context at the deadline
ShutdownReturns ==
    /\ run.pc = "shutdown"
    /\ \/ run.conns = 0 /\ run' = [run EXCEPT !.pc = "returned", !.ret = "nil"]
       \/ now >= run.deadline
            /\ run' = [run EXCEPT !.pc = "returned", !.ret = "context deadline exceeded"]
    /\ UNCHANGED <<now, op, res, nextRequest, hooks, reqs, received, handed>>

\* a second passes; the timer of the context of the shutdown fires at the
\* deadline, so that no time passes beyond it while Shutdown waits
TickServing ==
    /\ now < MaxNowSec
    /\ run.pc = "shutdown" => now < run.deadline
    /\ now' = now + 1
    /\ UNCHANGED <<op, res>>
    /\ UNCHANGED serverVars

NextStart ==
    \/ TickServing
    \/ CallStartAndServe
    \/ ListenAndServe
    \/ AcceptFails
    \/ ConnOpens
    \/ ConnCloses
    \/ Cancel
    \/ SelectCtxDone
    \/ SelectExitErr
    \/ ShutdownReturns

SpecStart == Init /\ [][NextStart]_vars

\* C25: StartAndServe has not returned while its context is not cancelled;
\* once the context is cancelled the shutdown is over by its deadline.
C25_StopsOnlyWhenCancelled ==
    /\ run.pc = "returned" => run.ctx = "cancelled"
    /\ run.pc = "shutdown" => now <= run.deadline

\* what holds of the return: the context was cancelled, or the error is the
\* one of ListenAndServe
C25_StopsWhenCancelledOrServeFails ==
    /\ run.pc = "returned" =>
        \/ run.ctx = "cancelled" /\ run.ret \in {"nil", "context deadline exceeded"}
        \/ run.ret \in {"listen error", "accept error"}
    /\ run.pc = "shutdown" => now <= run.deadline

---------------------------------------------------------------------------
(* utils.ReadNoMore *)

\* the largest and the smallest int.  The width of int is the one of the
\* platform; the model takes 32 bits, and at 64 bits limit+1 wraps in the
\* same way at 2^63 - 1.
MaxInt == 2147483647
MinInt == (-2147483647) - 1

\* limit+1 on int: the sum wraps around at MaxInt
Inc(n) == IF n = MaxInt THEN MinInt ELSE n + 1

ErrReadBody == "failed to read body"
ErrTooLarge == "body too large"

\* a reader holds bytes and ends with io.EOF, or with an error of its own
\* when fails is TRUE
Reader(bytes, fails) == [bytes |-> bytes, fails |-> fails]

\* io.ReadAll(io.LimitReader(r, n)): a LimitReader of n <= 0 is at EOF at
\* once; otherwise it hands on up to n bytes and meets the end of r, its
\* error included, only when r holds fewer than n
ReadAllLimited(r, n) ==
    IF n <= 0 THEN [data |-> <<>>, failed |-> FALSE]
    ELSE IF Len(r.bytes) >= n THEN [data |-> SubSeq(r.bytes, 1, n), failed |-> FALSE]
    ELSE [data |-> r.bytes, failed |-> r.fails]

\* [data, isNil, err] of ReadNoMore(r, limit)
ReadNoMore(r, limit) ==
    LET read == ReadAllLimited(r, Inc(limit))
    IN  IF read.failed THEN [data |-> <<>>, isNil |-> TRUE, err |-> ErrReadBody]
        ELSE IF Len(read.data) > limit
        THEN [data |-> <<>>, isNil |-> TRUE, err |-> ErrTooLarge]
        ELSE [data |-> read.data, isNil |-> FALSE, err |-> NoError]

\* the bodies of the model
Bodies == SeqsUpTo({104, 105}, MaxBodyLen)

\* the limits of the model: around the lengths of the bodies, negative, and
\* the largest int
Limits == (-2..(MaxBodyLen + 1)) \cup {MaxInt}

CallReadNoMore ==
    /\ op = Idle
    /\ \E bytes \in Bodies, fails \in BOOLEAN, limit \in Limits :
        /\ op' = [name |-> "ReadNoMore", r |-> Reader(bytes, fails), limit |-> limit]
        /\ res' = ReadNoMore(Reader(bytes, fails), limit)
    /\ UNCHANGED now
    /\ UNCHANGED serverVars

NextRead == CallReadNoMore \/ Return

SpecRead == Init /\ [][NextRead]_vars

\* C26: for a reader that ends with io.EOF, ReadNoMore returns the whole
\* body and no error if and only if the reader holds at most limit bytes;
\* with more bytes than limit it returns the 'body too large' error and no
\* data.
C26_ReadNoMoreAcceptsUpToLimit ==
    (op.name = "ReadNoMore" /\ ~op.r.fails) =>
        /\ (res.err = NoError /\ ~res.isNil /\ res.data = op.r.bytes)
                <=> Len(op.r.bytes) <= op.limit
        /\ Len(op.r.bytes) > op.limit => (res.err = ErrTooLarge /\ res.isNil)

\* the same for the limits below the largest int
C26_ReadNoMoreBelowMaxInt ==
    (op.name = "ReadNoMore" /\ ~op.r.fails /\ op.limit < MaxInt) =>
        /\ (res.err = NoError /\ ~res.isNil /\ res.data = op.r.bytes)
                <=> Len(op.r.bytes) <= op.limit
        /\ Len(op.r.bytes) > op.limit => (res.err = ErrTooLarge /\ res.isNil)

---------------------------------------------------------------------------
(* Authenticate of tokens with 'x' tags, well-formed and malformed *)

\* the 'x' tags of the tokens
XTagPool == {<<"x", "aabb">>, <<"x", "not-a-valid-hash">>, <<"x", "zz">>}

\* the tags of the tokens: an action, up to MaxTokenX 'x' tags, an
\* expiration, and a server or none
XTokenTags ==
    {<<<<"t", action>>>> \o xs \o <<<<"expiration", "40">>>> \o server :
        action \in {"upload", "get"}, xs \in SeqsUpTo(XTagPool, MaxTokenX),
        server \in {<<>>, <<<<"server", "cdn.example.com">>>>}}

\* Authenticate is called with a verified token of kind 24242
CallAuthenticateWithX ==
    /\ op = Idle
    /\ \E route \in Routes, tags \in XTokenTags, hostname \in Hostnames,
          hash \in HashOpts \cup {HashB} :
        LET r == [method |-> route.method, path |-> route.path,
                  header |-> [text |-> <<"Nostr", " ", "<b64>">>,
                              payload |-> [GoodPayload EXCEPT !.event.tags = tags]]]
        IN  /\ op' = [name |-> "Authenticate", r |-> r, hostname |-> hostname,
                      hash |-> hash]
            /\ res' = Authenticate(r, hostname, hash, now)
    /\ UNCHANGED now
    /\ UNCHANGED serverVars

NextToken == Tick \/ CallAuthenticateWithX \/ Return

SpecToken == Init /\ [][NextToken]_vars

\* the token has 'x' tags and none of them holds a well-formed hash
OnlyMalformedX(e) == TagIndexes(e, "x") # {} /\ ListedHashes(e) = {}

\* C27: a verified token whose 'x' tags are all malformed never fails on
\* the hash, and is authorized whatever the expected hash is, the absent one
\* included, as soon as its action is the implied one, the time is within
\* its bounds and the hostname passes.
C27_OnlyMalformedXIsWildcard ==
    ( /\ op.name = "Authenticate"
      /\ CarriesToken(op)
      /\ Verified(TokenOf(op))
      /\ TokenOf(op).kind = 24242
      /\ OnlyMalformedX(TokenOf(op)) ) =>
        LET e == TokenOf(op)
        IN  /\ res.err # ErrWrongHash
            /\ ( /\ SaysAction(e, ImpliedBy(op.r.method, op.r.path))
                 /\ SaysExpiration(e)
                 /\ e.created_at <= now + 10
                 /\ \A v \in TagValueSet(e, "expiration") : ParseInt(v).n >= now - 10
                 /\ (TagValueSet(e, "server") = {} \/ op.hostname \in TagValueSet(e, "server")) )
               => res = [pubkey |-> e.pubkey, err |-> NoError]

\* a token with two malformed 'x' tags is authorized for a hash
C27_Witness ==
    /\ op.name = "Authenticate"
    /\ Cardinality(TagIndexes(TokenOf(op), "x")) = 2
    /\ OnlyMalformedX(TokenOf(op))
    /\ op.hash = HashB
    /\ res = [pubkey |-> "pkA", err |-> NoError]

\* and for no hash at all
C27_WitnessAbsentHash ==
    /\ op.name = "Authenticate"
    /\ OnlyMalformedX(TokenOf(op))
    /\ op.hash = NilHash
    /\ res = [pubkey |-> "pkA", err |-> NoError]

\* while one well-formed 'x' tag among the malformed ones restricts it
C27_WitnessRestricted ==
    /\ op.name = "Authenticate"
    /\ TokenOf(op).tags[2] = <<"x", "zz">>
    /\ TokenOf(op).tags[3] = <<"x", "aabb">>
    /\ op.hash = HashB
    /\ res.err = ErrWrongHash

---------------------------------------------------------------------------
(* Validate called again and again with the same capability and the same   *)
(* expected values while the clock advances; op.at is the time.Now() of the *)
(* last call and op.seen holds the errors of the earlier calls              *)

\* capabilities with createdAt before and after expiration
TimedCapabilities ==
    [Pubkey : {"pkA"}, CreatedAt : {0, 12, 24}, Expiration : {1, 40},
     Action : {ActionUpload}, Hashes : {<<>>, <<HashA>>}, Hostnames : {<<>>}]

CallValidateTimed ==
    /\ op = Idle
    /\ \E a \in TimedCapabilities, action \in {ActionUpload, ActionGet},
          hash \in {ZeroHash, HashA} :
        /\ op' = [name |-> "Validate", auth |-> a, action |-> action, hash |-> hash,
                  hostname |-> ServerHostname, at |-> now, seen |-> {}]
        /\ res' = [pubkey |-> "", err |-> Validate(a, action, hash, ServerHostname, now)]
    /\ UNCHANGED now
    /\ UNCHANGED serverVars

\* the same call once more
ValidateAgain ==
    /\ op.name = "Validate"
    /\ op' = [op EXCEPT !.at = now, !.seen = @ \cup {res.err}]
    /\ res' = [pubkey |-> "",
               err |-> Validate(op.auth, op.action, op.hash, op.hostname, now)]
    /\ UNCHANGED now
    /\ UNCHANGED serverVars

\* time passes after a call, whose arguments are kept for the next one
TimePasses ==
    /\ op.name = "Validate"
    /\ now < MaxNowSec
    /\ now' = now + 1
    /\ UNCHANGED <<op, res>>
    /\ UNCHANGED serverVars

NextRevalidate == Tick \/ CallValidateTimed \/ TimePasses \/ ValidateAgain \/ Return

SpecRevalidate == Init /\ [][NextRevalidate]_vars

\* the rules of Validate that do not look at the clock pass
TimelessRulesPass(o) ==
    /\ o.auth.Action = o.action
    /\ (o.auth.Hashes = <<>> \/ o.hash \in Range(o.auth.Hashes))
    /\ (o.auth.Hostnames = <<>> \/ o.hostname \in Range(o.auth.Hostnames))

\* C28: with the capability and the expected values fixed, a call of
\* Validate succeeds only at the times from createdAt - 10s to
\* expiration + 10s and, when its other rules pass, at all of them, whether
\* createdAt is before expiration or not; after a call failed as expired
\* every call fails as expired, and after a call succeeded none fails as
\* created in the future.
C28_ValidExactlyWithinInterval ==
    op.name = "Validate" =>
        LET within == op.auth.CreatedAt - 10 <= op.at /\ op.at <= op.auth.Expiration + 10
        IN  /\ res.err = NoError => within
            /\ (within /\ TimelessRulesPass(op)) => res.err = NoError
            /\ ErrExpired \in op.seen => res.err = ErrExpired
            /\ NoError \in op.seen => res.err \in {NoError, ErrExpired}

\* a call succeeded, a later one failed as expired, and so does the next
C28_Witness ==
    /\ op.name = "Validate"
    /\ op.seen = {NoError, ErrExpired}
    /\ res.err = ErrExpired
    /\ op.at = op.auth.Expiration + 12

\* a token dated in the future becomes valid
C28_WitnessFutureDated ==
    /\ op.name = "Validate"
    /\ op.auth.CreatedAt = 24
    /\ op.seen = {ErrCreatedInFuture}
    /\ res.err = NoError

\* a capability with its expiration before its createdAt is accepted
C28_WitnessUnordered ==
    /\ op.name = "Validate"
    /\ op.auth.Expiration < op.auth.CreatedAt
    /\ ErrCreatedInFuture \in op.seen
    /\ res.err = NoError

---------------------------------------------------------------------------
(* The implied action of the requests that reach Authenticate *)

\* the action of the handler of a request, by its method and its path
HandlerAction(r) ==
    CASE r.path \in {<<"/", "upload">>, <<"/", "media">>} /\ r.method \in {"PUT", "HEAD"} ->
            ActionUpload
      [] r.path = <<"/", "mirror">> /\ r.method = "PUT" -> ActionUpload
      [] OTHER -> CASE r.method \in {"GET", "HEAD"} -> ActionGet
                    [] r.method = "DELETE" -> ActionDelete
                    [] OTHER -> ""

\* C29: a request for which a handler called Authenticate has an implied
\* action, and it is the one of the handler: upload for PUT and HEAD
\* /upload, PUT and HEAD /media and PUT /mirror, and else get for GET and
\* HEAD and delete for DELETE, on a path that holds a hash; never list.
C29_ImpliedActionIsTheHandlers ==
    \A slot \in Serving :
        reqs[slot].auth.called =>
            LET r == reqs[slot].r
                ia == impliedAction(r)
            IN  /\ ia.err = NoError
                /\ ia.action = HandlerAction(r)
                /\ ia.action \in {ActionGet, ActionDelete, ActionUpload}
                /\ ia.action \in {ActionGet, ActionDelete} =>
                    r.path \in {<<"/", "aabb">>, <<"/", "aabb", ".", "png">>}

\* DELETE of a hash with an extension reached Authenticate, which refused
\* the token for get
C29_Witness ==
    \E slot \in Serving :
        /\ reqs[slot].auth.called
        /\ reqs[slot].r.method = "DELETE"
        /\ reqs[slot].r.path = <<"/", "aabb", ".", "png">>
        /\ reqs[slot].r.header = ServerToken("get")
        /\ reqs[slot].resp.code = 401

\* PUT /mirror with a token for upload was authenticated
C29_WitnessMirror ==
    \E slot \in Serving :
        /\ reqs[slot].auth.called
        /\ reqs[slot].handler = "HandleMirror"
        /\ reqs[slot].r.header = ServerToken("upload")
        /\ reqs[slot].id = 1

\* GET /list never reaches Authenticate: it is a bad request
C29_WitnessList ==
    \E slot \in Serving :
        /\ reqs[slot].r.method = "GET"
        /\ reqs[slot].r.path = <<"/", "list">>
        /\ ~reqs[slot].auth.called
        /\ reqs[slot].resp.code = 400

---------------------------------------------------------------------------
(* Unverified tokens *)

\* C30: the outcome of Authenticate for a token that fails the check of its
\* id is the invalid-id failure, and for one that passes it and fails the
\* check of its signature it is the signature failure that the signature
\* and the pubkey alone decide: neither the kind and the tags of the token
\* nor the method, the path, the hostname and the expected hash change it.
C30_UnverifiedTokenDecidesNothing ==
    (op.name = "Authenticate" /\ CarriesToken(op)) =>
        LET e == TokenOf(op)
        IN  /\ ~e.id_ok => res = [pubkey |-> "", err |-> ErrInvalidEventID]
            /\ (e.id_ok /\ ~(e.sig = "valid" /\ e.pubkey # "")) =>
                res = [pubkey |-> "",
                       err |-> IF e.sig = "malformed" \/ e.pubkey = ""
                               THEN ErrSignatureError ELSE ErrInvalidSignature]

\* a token of another kind with a wrong id, on a request that has no
\* implied action, fails on its id
C30_Witness ==
    /\ op.name = "Authenticate"
    /\ CarriesToken(op)
    /\ ~TokenOf(op).id_ok
    /\ TokenOf(op).kind # 24242
    /\ ImpliedBy(op.r.method, op.r.path) = ""
    /\ op.hash = NilHash
    /\ res.err = ErrInvalidEventID

\* a token with a signature of somebody else and a tag that is no
\* capability fails on its signature, on a request without implied action
C30_WitnessSignature ==
    /\ op.name = "Authenticate"
    /\ CarriesToken(op)
    /\ TokenOf(op).id_ok
    /\ TokenOf(op).sig = "invalid"
    /\ TokenOf(op).pubkey = "pkB"
    /\ Len(TokenOf(op).tags) = 1
    /\ ImpliedBy(op.r.method, op.r.path) = ""
    /\ res.err = ErrInvalidSignature

====
